---- MODULE Spec2Model ----
(***************************************************************************)
(* The fetch engine of opencrawl (core/crawling/crawler.py, AsyncCrawler)  *)
(* as a state machine: the session and semaphore life cycle (setup,        *)
(* cleanup), the retry loop of fetch with its suspension points (waiting   *)
(* for a slot, the HTTP exchange, the backoff sleep) and fetch_all, which  *)
(* runs one fetch task per request and gathers their results; with it the  *)
(* proxy pool (core/crawling/proxies.py, Proxies), the extractors          *)
(* (core/crawling/extractor) as far as fetch depends on them, and the      *)
(* "async with" protocol of BaseCrawler.                                   *)
(*                                                                         *)
(* One step of the model is one run of a coroutine between two awaits of   *)
(* the single-threaded event loop.                                         *)
(***************************************************************************)
EXTENDS Integers, Sequences, FiniteSets, TLC

\* ------------------------------------------------------------------ bounds
NumReq == 2          \* largest batch handed to fetch_all
MaxRetries == 2      \* largest config.max_retries explored with a batch
MaxConc == 2         \* largest config.max_concurrent_requests explored
MaxSetups == 2       \* setup() calls in one behaviour
DeepRetries == 4     \* largest config.max_retries explored with a single fetch
MaxLen == 3          \* longest config.proxies string enumerated
MaxElems == 3        \* most elements of a page given to the extractors

\* ------------------------------------------------------- program constants
DefaultRetryDelay == 1   \* CrawlerConfig.retry_delay: float = 1.0
DefaultMinTextLength == 10   \* ExtractionConfig.min_text_length: int = 10

\* ------------------------------------------------------------ value spaces
None == "None"                         \* Python's None
Tasks == 1..NumReq                     \* positions of the batch
Sems == 1..MaxSetups                   \* the g-th setup() creates semaphore g
RetryDelays == {1, 3}                  \* config.retry_delay values explored
Statuses == {200, 404}                 \* a 2xx and a non-2xx HTTP status
\* the statuses around 200..299, and two error statuses
EdgeStatuses == {199, 200, 299, 300, 404, 500}
Body == "<html>"                       \* the body a completed exchange reads
BadBody == "<a href='http://['>x</a>"  \* a body whose link cannot be resolved
Pages == {Body, BadBody}
\* ExtractionType, and None for no strategy
Strategies == {None, "html", "content", "markdown", "structured"}
Failures == {"Timeout", "Client", "Unexpected"}
Chars == {"a", "b", ",", " ", "/"}     \* the characters of proxy strings
UserAgent == "OpenCrawl/0.1.0"         \* CrawlerConfig.user_agent
HeaderValues == {UserAgent, "x"}       \* the values of headers and cookies

\* A dict is the set of its items, <<key, value>>, no key occurring twice.
\* The dicts over a set of keys:
Dicts(keys) ==
    UNION {{{<<k, f[k]>> : k \in dom} : f \in [dom -> HeaderValues]} :
              dom \in SUBSET keys}

\* dict.keys()
Keys(d) == {item[1] : item \in d}

\* d[key], for a key of d
Get(d, key) == (CHOOSE item \in d : item[1] = key)[2]

\* A string is the sequence of its characters.  The strings of at most n
\* characters:
Strings(n) == UNION {[1..k -> Chars] : k \in 0..n}

\* "http://a:1,http://b:2"
InlineExample ==
    <<"h", "t", "t", "p", ":", "/", "/", "a", ":", "1", ",",
      "h", "t", "t", "p", ":", "/", "/", "b", ":", "2">>

\* The text of every proxy file: a proxy, a comment, a blank line, a proxy
\* with spaces around it.
FileText == <<"a", "\n", "#", "b", "\n", " ", "\n", " ", "b", " ">>

\* The file systems explored, each the set of the paths that name a file: no
\* file at all, or one file.
FileSystems == {{}} \cup {{path} : path \in {<<"/", "a">>, <<"a", "/", "b">>}}

VARIABLES
    max_retries,              \* config.max_retries
    max_concurrent_requests,  \* config.max_concurrent_requests
    retry_delay,              \* config.retry_delay
    session,                  \* self._session: "none" | "open" | "closed"
    semaphore,                \* self._semaphore: 0 (None) or the semaphore object
    semValue,                 \* asyncio.Semaphore._value of every semaphore object
    inflight,                 \* HTTP exchanges in flight: <<task, attempt>>
    nSetups,                  \* setup() calls so far
    cleanupPc,                \* cleanup(): "idle" | "closing" (awaiting close())
    requests,                 \* the list handed to fetch_all
    batch,                    \* fetch_all: "idle" | "running" | "returned" | "raised"
    task,                     \* the fetch coroutine of every position
    order,                    \* the positions in the order their fetch returned
    observed,                 \* the positions whose fetch keeps its history
    extraction_strategy,      \* config.extraction_strategy
    request_strategy,         \* extraction_strategy of the requests made
    picks,                    \* what random.choice gives attempt k of task i
    proxies,                  \* config.proxies, the string given to Proxies
    files,                    \* the paths that name a file
    poolPc,                   \* Proxies.__init__: "new" | "checking" | "ready"
                              \*                   | "raised"
    proxy_list,               \* Proxies._proxy_list
    probed,                   \* _check_proxies: the probe results so far
    rotated,                  \* what rotate_proxy last returned, <<>> before
    headers,                  \* config.headers
    cookies,                  \* config.cookies
    request_headers,          \* headers of the requests made
    request_cookies,          \* cookies of the requests made
    extraction_config,        \* config.extraction_config, as the extractors
                              \* hold it
    tree,                     \* the elements of a parsed page, in document
                              \* order
    output,                   \* what the last call on the page returned, <<>>
                              \* before
    scope,                    \* the "async with crawler" block: "out" | "in"
                              \* | "aexit" | "aexit_exc" (in __aexit__ after a
                              \* normal end, after an exception) | "left"
                              \* | "propagated" | "suppressed"
    returned,                 \* the list fetch_all returned (<<>> before that)
    crawler                   \* AsyncCrawler(config): "none" before the call
                              \* | "constructed" | "raised"

vars == <<max_retries, max_concurrent_requests, retry_delay, session, semaphore,
          semValue, inflight, nSetups, cleanupPc, requests, batch, task, order,
          observed, extraction_strategy, request_strategy, picks, proxies,
          files, poolPc, proxy_list, probed, rotated, headers, cookies,
          request_headers, request_cookies, extraction_config, tree, output,
          scope, returned, crawler>>

\* What no step of the engine changes: the configuration, the requests'
\* strategy, the random source and the proxy pool built in __init__.
config == <<max_retries, max_concurrent_requests, retry_delay, observed,
            extraction_strategy, request_strategy, picks, proxies, files,
            poolPc, proxy_list, probed, rotated, request_headers,
            request_cookies, extraction_config, tree, output, crawler>>

\* What the construction and the use of the proxy pool leave alone.
settings == <<max_retries, max_concurrent_requests, retry_delay, observed,
              extraction_strategy, request_strategy, picks, proxies, files,
              request_headers, request_cookies, crawler>>

\* The state of the engine object and of the fetch calls on it.
engine == <<session, semaphore, semValue, inflight, nSetups, cleanupPc,
            requests, batch, task, order, returned>>

\* The dicts of the config, which a fetch reads at every attempt.
shared == <<headers, cookies>>

\* A parsed page, the configuration of the extractors and what they returned.
documents == <<extraction_config, tree, output>>

\* --------------------------------------------------------- data structures
\* CrawlRequest: the fields the engine's control flow reads.
CrawlRequest(i) ==
    [url |-> i, metadata |-> i, extraction_strategy |-> request_strategy,
     headers |-> request_headers, cookies |-> request_cookies]

\* An Optional[ExtractedContent] is <<>> for None and <<x>> for x.
NoExtracted == <<>>

\* CrawlResponse
CrawlResponse(status, content, text, metadata, error) ==
    [status |-> status, content |-> content, text |-> text,
     metadata |-> metadata, error |-> error, extracted |-> NoExtracted]

\* ExtractedContent; the dict is the set of its items.
ExtractedContent(content, metadata, links, images, extraction_type, error) ==
    [content |-> content, metadata |-> metadata, links |-> links,
     images |-> images, extraction_type |-> extraction_type, error |-> error]

\* ExtractionConfig, as far as the extractors of links, of images and of
\* Markdown read it.
ExtractionConfig(preserve_links, preserve_images) ==
    [preserve_links |-> preserve_links, preserve_images |-> preserve_images,
     min_text_length |-> DefaultMinTextLength]

\* RawResponse
RawResponse(url, text, status) == [url |-> url, text |-> text, status |-> status]

\* CrawlResponse.is_success
is_success(r) == 200 <= r.status /\ r.status < 300 /\ r.error = None

\* The value of the local "result" before a response exists.
NoResponse == CrawlResponse(-1, "", "", 0, None)

\* A coroutine that was not created.  attempt, last_error and result are the
\* locals of fetch, and so are headers, cookies and proxy once an attempt has
\* begun; held
\* is the semaphore the coroutine waits for or holds.  rotations, started,
\* failures, sleeps, completed and used record what the call has done:
\* rotate_proxy calls, exchanges issued, attempts that raised, the
\* asyncio.sleep arguments in order, the status of the exchange that
\* completed (0 while none has), the proxies rotate_proxy returned, in
\* order, and the kinds of the exceptions its attempts raised, in order.
NoTask ==
    [pc |-> "none", attempt |-> 0, last_error |-> None, held |-> 0,
     headers |-> {}, cookies |-> {}, proxy |-> [url |-> <<>>],
     rotations |-> 0, started |-> 0, failures |-> 0, sleeps |-> <<>>,
     completed |-> 0, used |-> <<>>, caught |-> <<>>, result |-> NoResponse]

\* A task made by asyncio.create_task(self.fetch(request)), not yet run.
NewTask == [NoTask EXCEPT !.pc = "new"]

\* ------------------------------------------------------------ the semaphore
\* asyncio.Semaphore(self.config.max_concurrent_requests)
SemaphoreInitial == max_concurrent_requests

\* Semaphore.locked(): no slot can be taken without waiting
Locked(sv, g) == sv[g] = 0

\* Semaphore.acquire, once it need not wait
SemAcquire(sv, g) == [sv EXCEPT ![g] = @ - 1]

\* Semaphore.release
SemRelease(sv, g) == [sv EXCEPT ![g] = @ + 1]

\* ------------------------------------------------------------ the proxy pool
\* Proxy(url)
Proxy(url) == [url |-> url]

Whitespace == {" ", "\n"}

RECURSIVE LStrip(_)
LStrip(s) ==
    IF s # <<>> /\ Head(s) \in Whitespace THEN LStrip(Tail(s)) ELSE s

RECURSIVE RStrip(_)
RStrip(s) ==
    IF s # <<>> /\ s[Len(s)] \in Whitespace
    THEN RStrip(SubSeq(s, 1, Len(s) - 1))
    ELSE s

\* str.strip()
Strip(s) == RStrip(LStrip(s))

\* c in s, for a character c
Contains(s, c) == \E k \in 1..Len(s) : s[k] = c

RECURSIVE SplitFrom(_, _, _)
\* The pieces of s between the separators, given the piece begun so far.
SplitFrom(s, sep, piece) ==
    IF s = <<>> THEN <<piece>>
    ELSE IF Head(s) = sep THEN <<piece>> \o SplitFrom(Tail(s), sep, <<>>)
    ELSE SplitFrom(Tail(s), sep, Append(piece, Head(s)))

\* str.split(sep)
Split(s, sep) == SplitFrom(s, sep, <<>>)

\* str.splitlines(), up to the empty pieces, which the caller drops
SplitLines(s) == Split(s, "\n")

\* str.startswith(c), for a character c
StartsWith(s, c) == s # <<>> /\ Head(s) = c

RECURSIVE Proxied(_, _)
\* [Proxy(x.strip()) for x in items if x.strip() and not comment(x.strip())]
Proxied(items, skipComments) ==
    IF items = <<>> THEN <<>>
    ELSE LET x == Strip(Head(items))
             rest == Proxied(Tail(items), skipComments)
         IN  IF x = <<>> \/ (skipComments /\ StartsWith(x, "#"))
             THEN rest
             ELSE <<Proxy(x)>> \o rest

\* Proxies._load_proxies: nothing for the empty string; a string with a "/"
\* is opened as a file, which raises when there is no such file; any other
\* string is a comma-separated list.
load_proxies(string, fs) ==
    IF string = <<>> THEN [raised |-> FALSE, list |-> <<>>]
    ELSE IF Contains(string, "/")
    THEN IF string \in fs
         THEN [raised |-> FALSE, list |-> Proxied(SplitLines(FileText), TRUE)]
         ELSE [raised |-> TRUE, list |-> <<>>]
    ELSE [raised |-> FALSE, list |-> Proxied(Split(string, ","), FALSE)]

\* check_proxies_body dropping the proxy whose probe failed.
check_proxies_body_removing(list, k, ok) ==
    IF ok THEN list
    ELSE [j \in 1..(Len(list) - 1) |-> IF j < k THEN list[j] ELSE list[j + 1]]

\* The body of the loop of Proxies._check_proxies for the k-th proxy: the
\* result of the probe is logged and the list stays as it is.
check_proxies_body(list, k, ok) == list

\* rotate_proxy giving the "no proxy" value whatever the pool holds.
rotate_proxy_direct(list, pick) == Proxy(<<>>)

\* Proxies.rotate_proxy, random.choice picking the pick-th element
rotate_proxy(list, pick) ==
    IF list = <<>> THEN Proxy(<<>>) ELSE list[pick]

\* The picks random.choice can make from a list
Picks(list) == IF list = <<>> THEN {1} ELSE 1..Len(list)

\* ----------------------------------------------------------- the extractors
\* The keys of the dict _init_extractors builds.
Registered == {"html", "content", "markdown"}

\* get_extractor falling back to the HTML extractor for a type that has none.
get_extractor_fallback(extraction_type) ==
    IF extraction_type = None THEN None
    ELSE IF extraction_type \in Registered THEN extraction_type
    ELSE "html"

\* AsyncCrawler._get_extractor; the extractor is named by its type.
get_extractor(extraction_type) ==
    IF extraction_type = None THEN None
    ELSE IF extraction_type \in Registered THEN extraction_type
    ELSE None

\* The href attributes of tree.css("a[href]") for the pages explored.
Hrefs == (Body :> <<>>) @@ (BadBody :> <<"http://[">>)

\* urljoin(base_url, href) raises ValueError("Invalid IPv6 URL") on an href
\* with an unmatched bracket in its host.
UrljoinRaises(href) == href = "http://["

\* BaseExtractor._extract_links: whether it raises, and if not the URLs of
\* list(set(links)), which come in an order the set decides: the model keeps
\* the set.
extract_links(text, base_url) ==
    [raised |-> \E k \in 1..Len(Hrefs[text]) : UrljoinRaises(Hrefs[text][k]),
     value |-> {Hrefs[text][k] : k \in 1..Len(Hrefs[text])}]

\* What each extractor makes of the pages it can process: the cleaned
\* document for HTML, the joined text elements for content and the converted
\* elements for Markdown.  The document of Body has an empty body.
content_of ==
    [kind \in Registered |->
        (Body :> IF kind = "html"
                 THEN "<html><head></head><body></body></html>"
                 ELSE "")]

\* extract with the page processed before the status is looked at.
extract_parse_first(kind, response) ==
    IF extract_links(response.text, response.url).raised
    THEN [raised |-> FALSE,
          value |-> ExtractedContent("", {}, {}, {}, kind,
                                     "Extraction error: Invalid IPv6 URL")]
    ELSE IF response.status < 200 \/ response.status >= 300
    THEN [raised |-> FALSE,
          value |-> ExtractedContent("", {}, {}, {}, kind,
                                     "HTTP " \o ToString(response.status))]
    ELSE [raised |-> FALSE,
          value |-> ExtractedContent(content_of[kind][response.text], {},
                        extract_links(response.text, response.url).value, {},
                        kind, None)]

\* extract without its try ... except: what the page raises leaves extract.
extract_unguarded(kind, response) ==
    IF response.status < 200 \/ response.status >= 300
    THEN [raised |-> FALSE,
          value |-> ExtractedContent("", {}, {}, {}, kind,
                                     "HTTP " \o ToString(response.status))]
    ELSE IF extract_links(response.text, response.url).raised
    THEN [raised |-> TRUE,
          value |-> ExtractedContent("", {}, {}, {}, kind, None)]
    ELSE [raised |-> FALSE,
          value |-> ExtractedContent(content_of[kind][response.text], {},
                        extract_links(response.text, response.url).value, {},
                        kind, None)]

\* HTMLExtractor.extract, ContentExtractor.extract, MarkdownExtractor.extract,
\* which differ in the content they build and in the type they report: a
\* status outside 200..299 gives "HTTP <status>" before the page is looked at;
\* an exception while the page is processed gives "Extraction error: ...".
\* raised tells whether the call leaves by an exception, which it never does.
extract(kind, response) ==
    IF response.status < 200 \/ response.status >= 300
    THEN [raised |-> FALSE,
          value |-> ExtractedContent("", {}, {}, {}, kind,
                                     "HTTP " \o ToString(response.status))]
    ELSE IF extract_links(response.text, response.url).raised
    THEN [raised |-> FALSE,
          value |-> ExtractedContent("", {}, {}, {}, kind,
                                     "Extraction error: Invalid IPv6 URL")]
    ELSE [raised |-> FALSE,
          value |-> ExtractedContent(content_of[kind][response.text], {},
                        extract_links(response.text, response.url).value, {},
                        kind, None)]

\* ------------------------------------------------ the extractors on a page
\* A parsed page is the sequence of its elements in document order, each
\* with its tag, the tag of its parent, its text and the value of its href or
\* src attribute (<<>> without one); the text of an img is its alt.  Texts
\* and URLs are strings, sequences of characters.
Element(tag, parent, text, url) ==
    [tag |-> tag, parent |-> parent, text |-> text, url |-> url]

\* The character that opens and closes code in Markdown, which a string of
\* this module cannot hold as itself.
Backtick == "backtick"

\* c * n
Repeat(c, n) == [k \in 1..n |-> c]

\* "http://x/", the URL of the page
BaseUrl == <<"h", "t", "t", "p", ":", "/", "/", "x", "/">>

\* urljoin(base_url, url), for the root URL of a site and a reference that
\* is a path from the root ("/a") or a relative path ("a")
urljoin(base_url, url) ==
    IF Head(url) = "/" THEN base_url \o Tail(url) ELSE base_url \o url

\* node.css(selector) for a selector naming tags: the elements that match,
\* in document order
css(node, tags) == SelectSeq(node, LAMBDA e : e.tag \in tags)

\* node.css("parent > tag")
css_child(node, parent, tag) ==
    SelectSeq(node, LAMBDA e : e.tag = tag /\ e.parent = parent)

\* set(list)
Range(list) == {list[k] : k \in 1..Len(list)}

\* The lists that hold every element of a set once.
Orderings(S) == {list \in [1..Cardinality(S) -> S] : Range(list) = S}

\* [urljoin(base_url, url) for e in tree.css(...) if (url := e.attributes.get(...))]
Resolved(node, tags, base_url) ==
    LET found == SelectSeq(css(node, tags), LAMBDA e : e.url # <<>>)
    IN  [k \in 1..Len(found) |-> urljoin(base_url, found[k].url)]

\* list_of_set returning the list it was given.
list_as_is(list, ordering) == list

\* list(set(list)): the elements of the list once each, in the order the
\* iteration of the set gives, which is one of Orderings(Range(list)).
list_of_set(list, ordering) == ordering

\* BaseExtractor._extract_links
page_links(node, base_url, cfg, ordering) ==
    IF ~cfg.preserve_links THEN <<>>
    ELSE list_of_set(Resolved(node, {"a"}, base_url), ordering)

\* BaseExtractor._extract_images
page_images(node, base_url, cfg, ordering) ==
    IF ~cfg.preserve_images THEN <<>>
    ELSE list_of_set(Resolved(node, {"img"}, base_url), ordering)

RECURSIVE Join(_, _)
\* sep.join(parts)
Join(parts, sep) ==
    IF parts = <<>> THEN <<>>
    ELSE IF Len(parts) = 1 THEN parts[1]
    ELSE parts[1] \o sep \o Join(Tail(parts), sep)

\* "\n\n\n" in s
HasTriple(s) ==
    \E k \in 1..(Len(s) - 2) :
        s[k] = "\n" /\ s[k + 1] = "\n" /\ s[k + 2] = "\n"

RECURSIVE ReplaceTriples(_)
\* s.replace("\n\n\n", "\n\n"): the occurrences from the left that do not
\* overlap
ReplaceTriples(s) ==
    IF Len(s) < 3 THEN s
    ELSE IF s[1] = "\n" /\ s[2] = "\n" /\ s[3] = "\n"
    THEN <<"\n", "\n">> \o ReplaceTriples(SubSeq(s, 4, Len(s)))
    ELSE <<s[1]>> \o ReplaceTriples(Tail(s))

RECURSIVE Collapse(_)
\* while "\n\n\n" in markdown: markdown = markdown.replace(...)
Collapse(s) == IF HasTriple(s) THEN Collapse(ReplaceTriples(s)) ELSE s

\* [Format(e) for e in found if Keep(e)]
Emit(found, Keep(_), Format(_)) ==
    LET kept == SelectSeq(found, Keep)
    IN  [k \in 1..Len(kept) |-> Format(kept[k])]

\* The lines of a blockquote: "> line" for every line that is not blank.
Quoted(text) ==
    Join(Emit(Split(text, "\n"), LAMBDA line : Strip(line) # <<>>,
              LAMBDA line : <<">", " ">> \o line),
         <<"\n">>)

\* The parts of a page of one kind, a heading or a paragraph, in document
\* order, without the test of their length.
heading_or_paragraph_unfiltered(node, tags, prefix, cfg) ==
    Emit(css(node, tags), LAMBDA e : Strip(e.text) # <<>>,
         LAMBDA e : prefix \o Strip(e.text) \o <<"\n">>)

\* The headings of one level, or the paragraphs: the text of each, after
\* its prefix, when it has min_text_length characters or more.
heading_or_paragraph(node, tags, prefix, cfg) ==
    Emit(css(node, tags),
         LAMBDA e : /\ Strip(e.text) # <<>>
                    /\ Len(Strip(e.text)) >= cfg.min_text_length,
         LAMBDA e : prefix \o Strip(e.text) \o <<"\n">>)

\* extend putting the new parts in front of those gathered so far.
extend_in_front(parts, more) == more \o parts

\* markdown_parts.extend(more)
extend(parts, more) == parts \o more

\* MarkdownExtractor._convert_to_markdown
convert_to_markdown(node, base_url, cfg) ==
    LET text(e) == Strip(e.text)
        some(e) == text(e) # <<>>
        long(e) == some(e) /\ Len(text(e)) >= cfg.min_text_length
        headings(level) ==
            heading_or_paragraph(node, {<<"h1", "h2", "h3", "h4", "h5",
                                          "h6">>[level]},
                                 Repeat("#", level) \o <<" ">>, cfg)
        paragraphs == heading_or_paragraph(node, {"p"}, <<>>, cfg)
        links ==
            IF cfg.preserve_links
            THEN Emit(css(node, {"a"}), LAMBDA e : e.url # <<>> /\ long(e),
                      LAMBDA e : <<"[">> \o text(e) \o <<"]", "(">>
                                 \o urljoin(base_url, e.url) \o <<")">>)
            ELSE <<>>
        images ==
            IF cfg.preserve_images
            THEN Emit(css(node, {"img"}), LAMBDA e : e.url # <<>>,
                      LAMBDA e : <<"!", "[">> \o e.text \o <<"]", "(">>
                                 \o urljoin(base_url, e.url)
                                 \o <<")", "\n">>)
            ELSE <<>>
        ol_items ==
            Emit(css_child(node, "ol", "li"), long,
                 LAMBDA e : <<"1", ".", " ">> \o text(e) \o <<"\n">>)
        ul_items ==
            Emit(css_child(node, "ul", "li"), long,
                 LAMBDA e : <<"-", " ">> \o text(e) \o <<"\n">>)
        code_blocks ==
            Emit(css_child(node, "pre", "code"), some,
                 LAMBDA e : <<Backtick, Backtick, Backtick, "\n">> \o text(e)
                            \o <<"\n", Backtick, Backtick, Backtick, "\n">>)
        inline_code ==
            Emit(css(node, {"code"}), LAMBDA e : e.parent # "pre" /\ some(e),
                 LAMBDA e : <<Backtick>> \o text(e) \o <<Backtick>>)
        blockquotes ==
            Emit(css(node, {"blockquote"}), long,
                 LAMBDA e : Quoted(text(e)) \o <<"\n">>)
        bold ==
            Emit(css(node, {"strong", "b"}), some,
                 LAMBDA e : <<"*", "*">> \o text(e) \o <<"*", "*">>)
        italic ==
            Emit(css(node, {"em", "i"}), some,
                 LAMBDA e : <<"*">> \o text(e) \o <<"*">>)
        all_headings ==
            extend(extend(extend(extend(extend(extend(<<>>,
                headings(1)), headings(2)), headings(3)), headings(4)),
                headings(5)), headings(6))
        markdown_parts ==
            extend(extend(extend(extend(extend(extend(extend(extend(extend(
                extend(all_headings, paragraphs), links), images), ol_items),
                ul_items), code_blocks), inline_code), blockquotes), bold),
                italic)
    IN  Strip(Collapse(Join(markdown_parts, <<"\n">>)))

\* ------------------------------------------------------------------- fetch
\* NotSetUp with the test left out.
NotSetUpUnchecked == FALSE

\* if not self._session: raise RuntimeError(...).  A closed ClientSession is
\* still an object, so only None fails the test.
NotSetUp == session = "none"

\* InRange with one iteration too many.
InRangeOneMore(k) == k <= max_retries

\* for attempt in range(self.config.max_retries)
InRange(k) == k < max_retries

\* the text of last_error for each except clause
ErrorMessage(kind) ==
    CASE kind = "Timeout" -> "Timeout error: e"
      [] kind = "Client" -> "Client error: e"
      [] OTHER -> "Unexpected error: e"

\* if attempt < self.config.max_retries - 1
ShouldBackoff(attempt) == attempt < max_retries - 1

\* BackoffDelay growing linearly instead of doubling.
BackoffDelayLinear(attempt) == retry_delay * (attempt + 1)

\* wait_time = self.config.retry_delay * (2**attempt)
BackoffDelay(attempt) == retry_delay * (2 ^ attempt)

\* FailureResponse without error=last_error.
FailureResponseNoError(req, last_error) ==
    CrawlResponse(0, "", "", req.metadata, None)

\* the response returned after the loop: all retries failed
FailureResponse(req, last_error) ==
    CrawlResponse(0, "", "", req.metadata, last_error)

\* ExchangeResponse without metadata=request.metadata: the response gets
\* the default, an empty dict.
ExchangeResponseNoMetadata(req, status, text) ==
    CrawlResponse(status, text, text, 0, None)

\* ExchangeResponse with a status outside 200..299 reported as an error.
ExchangeResponseErrorStatus(req, status, text) ==
    CrawlResponse(status, text, text, req.metadata,
                  IF status < 200 \/ status >= 300
                  THEN "HTTP " \o ToString(status) ELSE None)

\* the response built from a completed exchange
ExchangeResponse(req, status, text) ==
    CrawlResponse(status, text, text, req.metadata, None)

\* merge with the defaults winning where both dicts have the key.
merge_defaults_win(defaults, own) ==
    [merged |-> defaults \cup {item \in own : item[1] \notin Keys(defaults)},
     left |-> defaults,
     right |-> own]

\* merge with the config's dict updated in place and passed on.
merge_in_place(defaults, own) ==
    [merged |-> own \cup {item \in defaults : item[1] \notin Keys(own)},
     left |-> own \cup {item \in defaults : item[1] \notin Keys(own)},
     right |-> own]

\* {**defaults, **own}: a new dict with the items of defaults, then those of
\* own, a key of both keeping the value of own; left and right are the two
\* operands after the expression.
merge(defaults, own) ==
    [merged |-> own \cup {item \in defaults : item[1] \notin Keys(own)},
     left |-> defaults,
     right |-> own]

\* ExtractionType with the config's strategy taking precedence.
ExtractionTypeConfigFirst(req) ==
    IF extraction_strategy # None THEN extraction_strategy
    ELSE req.extraction_strategy

\* extraction_type = request.extraction_strategy or
\*                   self.config.extraction_strategy
ExtractionType(req) ==
    IF req.extraction_strategy # None THEN req.extraction_strategy
    ELSE extraction_strategy

\* Return with the error of an earlier attempt passed on to the response.
ReturnStaleError(t, response) ==
    [t EXCEPT !.pc = "done", !.held = 0,
              !.result = [response EXCEPT !.error = t.last_error]]

\* A return statement of fetch.
Return(t, response) ==
    [t EXCEPT !.pc = "done", !.held = 0, !.result = response]

\* EndExchange with the exchange left running when its attempt is over.
EndExchangeLeaveRunning(w, i) ==
    [w EXCEPT !.sv = SemRelease(@, w.t.held)]

\* EndExchange with the slot kept when the attempt is over.
EndExchangeKeepSlot(w, i) ==
    [w EXCEPT !.fl = @ \ {<<i, w.t.attempt>>}]

\* EndExchange with every exchange of the session dropped.
EndExchangeDropAll(w, i) ==
    [w EXCEPT !.sv = SemRelease(@, w.t.held), !.fl = {}]

\* Leaving "async with self._semaphore" and "async with session.request(...)"
\* with the exchange of task i over: the exchange is gone, the slot is free.
EndExchange(w, i) ==
    [w EXCEPT !.sv = SemRelease(@, w.t.held),
              !.fl = @ \ {<<i, w.t.attempt>>}]

RECURSIVE NextIteration(_, _, _, _), Failed(_, _, _, _), IssueRequest(_, _, _)
RECURSIVE CompletedRaiseForStatus(_, _, _, _, _), Completed(_, _, _, _, _)

\* Failed without the "except Exception" clause: an error that is neither a
\* timeout nor a client error leaves fetch.
FailedPropagating(w, i, req, kind) ==
    IF kind = "Unexpected"
    THEN [w EXCEPT !.t = [@ EXCEPT !.pc = "raised", !.held = 0]]
    ELSE LET t1 == [w.t EXCEPT !.last_error = ErrorMessage(kind), !.held = 0,
                               !.failures = @ + 1,
                               !.caught = Append(@, kind)]
         IN  IF ShouldBackoff(t1.attempt)
             THEN [w EXCEPT !.t = [t1 EXCEPT !.pc = "sleep",
                               !.sleeps = Append(@, BackoffDelay(t1.attempt))]]
             ELSE NextIteration([w EXCEPT !.t = t1], i, req, t1.attempt + 1)

\* Failed with the error of the first failed attempt kept to the end.
FailedKeepFirst(w, i, req, kind) ==
    LET t1 == [w.t EXCEPT !.last_error = IF @ = None THEN ErrorMessage(kind)
                                         ELSE @,
                          !.held = 0,
                          !.failures = @ + 1, !.caught = Append(@, kind)]
    IN  IF ShouldBackoff(t1.attempt)
        THEN [w EXCEPT !.t = [t1 EXCEPT !.pc = "sleep",
                          !.sleeps = Append(@, BackoffDelay(t1.attempt))]]
        ELSE NextIteration([w EXCEPT !.t = t1], i, req, t1.attempt + 1)

\* One of the three except clauses and the end of the loop body: record the
\* error, then sleep for the backoff or go straight to the next iteration.
Failed(w, i, req, kind) ==
    LET t1 == [w.t EXCEPT !.last_error = ErrorMessage(kind), !.held = 0,
                          !.failures = @ + 1, !.caught = Append(@, kind)]
    IN  IF ShouldBackoff(t1.attempt)
        THEN [w EXCEPT !.t = [t1 EXCEPT !.pc = "sleep",
                          !.sleeps = Append(@, BackoffDelay(t1.attempt))]]
        ELSE NextIteration([w EXCEPT !.t = t1], i, req, t1.attempt + 1)

\* Completed with a status outside 200..299 raised as a client error.
CompletedRaiseForStatus(w, i, req, status, text) ==
    IF status < 200 \/ status >= 300 THEN Failed(w, i, req, "Client")
    ELSE
    LET response == ExchangeResponse(req, status, text)
        extractor == get_extractor(ExtractionType(req))
        outcome == extract(extractor, RawResponse(req.url, text, status))
    IN  IF ExtractionType(req) = None \/ extractor = None
        THEN [w EXCEPT !.t = Return(w.t, response)]
        ELSE IF outcome.raised THEN Failed(w, i, req, "Unexpected")
        ELSE [w EXCEPT !.t = Return(w.t,
                  [response EXCEPT !.extracted = <<outcome.value>>])]

\* The exchange of task i has completed with a status and a body, its slot
\* given back in w: the response is built, the extractor of the selected
\* strategy, if there is one, is applied to it, and the response is
\* returned; an exception leaving extract would be caught by "except
\* Exception".
Completed(w, i, req, status, text) ==
    LET response == ExchangeResponse(req, status, text)
        extractor == get_extractor(ExtractionType(req))
        outcome == extract(extractor, RawResponse(req.url, text, status))
    IN  IF ExtractionType(req) = None \/ extractor = None
        THEN [w EXCEPT !.t = Return(w.t, response)]
        ELSE IF outcome.raised THEN Failed(w, i, req, "Unexpected")
        ELSE [w EXCEPT !.t = Return(w.t,
                  [response EXCEPT !.extracted = <<outcome.value>>])]

\* IssueRequest keeping the slot when the session refuses the request.
IssueRequestKeepsSlot(w, i, req) ==
    IF session = "open"
    THEN [w EXCEPT !.t = [@ EXCEPT !.pc = "exchange", !.started = @ + 1],
                   !.fl = @ \cup {<<i, w.t.attempt>>}]
    ELSE Failed(w, i, req, "Unexpected")

\* self._session.request(...) with the slot of w.t.held taken: a live session
\* starts the exchange; a closed one, or None, raises inside the try block and
\* the slot is given back.
IssueRequest(w, i, req) ==
    IF session = "open"
    THEN [w EXCEPT !.t = [@ EXCEPT !.pc = "exchange", !.started = @ + 1],
                   !.fl = @ \cup {<<i, w.t.attempt>>}]
    ELSE Failed([w EXCEPT !.sv = SemRelease(@, w.t.held)], i, req, "Unexpected")

\* NextIteration with the proxy rotated before the loop, once for the call.
NextIterationRotateOnce(w, i, req, k) ==
    IF ~InRange(k)
    THEN [w EXCEPT !.t = Return(w.t, FailureResponse(req, w.t.last_error))]
    ELSE LET h == merge(w.cfg.headers, req.headers)
             c == merge(w.cfg.cookies, req.cookies)
             req1 == [req EXCEPT !.headers = h.right, !.cookies = c.right]
             t0 == [w.t EXCEPT !.attempt = k, !.headers = h.merged,
                               !.cookies = c.merged]
             t1 == IF k = 0
                   THEN [t0 EXCEPT !.rotations = @ + 1,
                             !.proxy = rotate_proxy(proxy_list, picks[i][k]),
                             !.used = Append(@,
                                 rotate_proxy(proxy_list, picks[i][k]))]
                   ELSE t0
             w1 == [w EXCEPT !.cfg = [headers |-> h.left, cookies |-> c.left],
                             !.rq = req1]
         IN  IF semaphore = 0
             THEN Failed([w1 EXCEPT !.t = t1], i, req1, "Unexpected")
             ELSE IF Locked(w.sv, semaphore)
             THEN [w1 EXCEPT !.t = [t1 EXCEPT !.pc = "acquire",
                                              !.held = semaphore]]
             ELSE IssueRequest([w1 EXCEPT !.t = [t1 EXCEPT !.held = semaphore],
                                          !.sv = SemAcquire(@, semaphore)],
                               i, req1)

\* The loop at index k, up to the next await: past the range the failure
\* response is returned; within it the headers and the cookies of the
\* attempt are merged, the proxy is rotated and "async with self._semaphore"
\* is entered, which raises on None, waits when the semaphore is locked and
\* takes a slot otherwise.
NextIteration(w, i, req, k) ==
    IF ~InRange(k)
    THEN [w EXCEPT !.t = Return(w.t, FailureResponse(req, w.t.last_error))]
    ELSE LET h == merge(w.cfg.headers, req.headers)
             c == merge(w.cfg.cookies, req.cookies)
             req1 == [req EXCEPT !.headers = h.right, !.cookies = c.right]
             t1 == [w.t EXCEPT !.attempt = k, !.headers = h.merged,
                        !.cookies = c.merged, !.rotations = @ + 1,
                        !.proxy = rotate_proxy(proxy_list, picks[i][k]),
                        !.used = Append(@,
                            rotate_proxy(proxy_list, picks[i][k]))]
             w1 == [w EXCEPT !.cfg = [headers |-> h.left, cookies |-> c.left],
                             !.rq = req1]
         IN  IF semaphore = 0
             THEN Failed([w1 EXCEPT !.t = t1], i, req1, "Unexpected")
             ELSE IF Locked(w.sv, semaphore)
             THEN [w1 EXCEPT !.t = [t1 EXCEPT !.pc = "acquire",
                                              !.held = semaphore]]
             ELSE IssueRequest([w1 EXCEPT !.t = [t1 EXCEPT !.held = semaphore],
                                          !.sv = SemAcquire(@, semaphore)],
                               i, req1)

\* What a step of the fetch of position i reads and writes: its coroutine,
\* the semaphores, the exchanges in flight, the dicts of the config and its
\* request.
World(i) ==
    [t |-> task[i], sv |-> semValue, fl |-> inflight,
     cfg |-> [headers |-> headers, cookies |-> cookies], rq |-> requests[i]]

\* The positions whose fetch has returned, in the order they returned.
Finished(old, new, i) ==
    IF old.pc # "done" /\ new.pc = "done" THEN Append(order, i) ELSE order

\* What is left of a fetch coroutine after a step.  A coroutine that has
\* returned is its result, and one that is still running is its position and
\* its locals; an observed call also keeps the record of what it did, and its
\* last locals when it has returned.
Settle(i, t) ==
    IF i \in observed THEN t
    ELSE IF t.pc = "done"
    THEN [NoTask EXCEPT !.pc = "done", !.result = t.result]
    ELSE [t EXCEPT !.rotations = 0, !.started = 0, !.failures = 0,
                   !.sleeps = <<>>, !.completed = 0, !.used = <<>>,
                   !.caught = <<>>]

Commit(i, w) ==
    /\ task' = [task EXCEPT ![i] = Settle(i, w.t)]
    /\ semValue' = w.sv
    /\ inflight' = w.fl
    /\ order' = Finished(task[i], w.t, i)
    /\ headers' = w.cfg.headers
    /\ cookies' = w.cfg.cookies
    /\ requests' = [requests EXCEPT ![i] = w.rq]

\* ------------------------------------------------------------------- Init
\* No session, no semaphore, nothing running.
AtRest ==
    /\ session = "none"
    /\ semaphore = 0
    /\ semValue = [g \in Sems |-> 0]
    /\ inflight = {}
    /\ nSetups = 0
    /\ cleanupPc = "idle"
    /\ requests = <<>>
    /\ batch = "idle"
    /\ task = [i \in Tasks |-> NoTask]
    /\ order = <<>>
    /\ returned = <<>>

\* The engine after __init__: no session, no semaphore, nothing running.
Constructed ==
    /\ crawler = "constructed"
    /\ AtRest

\* The pool after Proxies(string) has returned, every probe having passed.
PoolBuilt(string, fs) ==
    /\ proxies = string
    /\ files = fs
    /\ poolPc = "ready"
    /\ proxy_list = load_proxies(string, fs).list
    /\ probed = [k \in 1..Len(load_proxies(string, fs).list) |-> TRUE]
    /\ rotated = <<>>

\* The random source: every outcome of random.choice for the attempts of the
\* calls in ts, drawn in advance; the other calls get the first proxy.
PickSources(ts) ==
    {[i \in Tasks |-> IF i \in ts THEN g
                      ELSE [k \in 0..(max_retries - 1) |-> 1]] :
        g \in [0..(max_retries - 1) -> Picks(proxy_list)]}

\* CrawlerConfig's default headers after __post_init__ and its default
\* cookies, and requests with no headers and no cookies of their own.
PlainHeaders ==
    /\ headers = {<<"User-Agent", UserAgent>>}
    /\ cookies = {}
    /\ request_headers = {}
    /\ request_cookies = {}

\* The extractors with ExtractionConfig's defaults, and no page parsed.
NoPage ==
    /\ extraction_config = ExtractionConfig(TRUE, TRUE)
    /\ tree = <<>>
    /\ output = <<>>

\* CrawlerConfig's defaults for the headers, the cookies, the proxies and
\* the extraction strategy, requests that set none of them, and no "async
\* with" block.
Defaults ==
    /\ PlainHeaders
    /\ NoPage
    /\ extraction_strategy = None
    /\ request_strategy = None
    /\ PoolBuilt(<<>>, {})
    /\ picks \in PickSources({})
    /\ scope = "out"

\* Batches under every small configuration, with the default retry delay;
\* no call keeps its history.
Init ==
    /\ observed = {}
    /\ max_retries \in 0..MaxRetries
    /\ max_concurrent_requests \in 1..MaxConc
    /\ retry_delay = DefaultRetryDelay
    /\ Constructed
    /\ Defaults

\* ---------------------------------------------------------------- actions
\* AsyncCrawler.setup
Setup ==
    /\ nSetups < MaxSetups
    /\ nSetups' = nSetups + 1
    /\ session' = "open"
    /\ semaphore' = nSetups + 1
    /\ semValue' = [semValue EXCEPT ![nSetups + 1] = SemaphoreInitial]
    /\ UNCHANGED <<config, shared, inflight, cleanupPc, requests, batch, task,
                   order, returned>>

\* AsyncCrawler.cleanup up to "await self._session.close()"; with no session
\* the whole of it.
CleanupBegin ==
    /\ cleanupPc = "idle"
    /\ \/ session # "none" \/ semaphore # 0
    /\ IF session # "none"
       THEN /\ session' = "closed"
            /\ cleanupPc' = "closing"
            /\ UNCHANGED semaphore
       ELSE /\ semaphore' = 0
            /\ UNCHANGED <<session, cleanupPc>>
    /\ UNCHANGED <<config, shared, semValue, inflight, nSetups, requests,
                   batch, task, order, returned>>

\* CleanupEnd leaving the closed session in self._session.
CleanupEndKeepsSession ==
    /\ cleanupPc = "closing"
    /\ session' = session
    /\ semaphore' = 0
    /\ cleanupPc' = "idle"
    /\ UNCHANGED <<config, shared, semValue, inflight, nSetups, requests,
                   batch, task, order, returned>>

\* AsyncCrawler.cleanup after the await
CleanupEnd ==
    /\ cleanupPc = "closing"
    /\ session' = "none"
    /\ semaphore' = 0
    /\ cleanupPc' = "idle"
    /\ UNCHANGED <<config, shared, semValue, inflight, nSetups, requests,
                   batch, task, order, returned>>

\* fetch_all up to its await: one task per request
FetchAll(n) ==
    /\ batch = "idle"
    /\ batch' = "running"
    /\ requests' = [i \in 1..n |-> CrawlRequest(i)]
    /\ task' = [i \in Tasks |-> IF i <= n THEN NewTask ELSE NoTask]
    /\ UNCHANGED <<config, shared, scope, session, semaphore, semValue,
                   inflight, nSetups, cleanupPc, order, returned>>

\* The first run of the fetch task at position i, in the state st that the
\* tasks before it left: the set-up check, then the loop.
FirstStep(st, i) ==
    LET w0 == [t |-> st.task[i], sv |-> st.sv, fl |-> st.fl, cfg |-> st.cfg,
               rq |-> st.requests[i]]
        w == IF NotSetUp
             THEN [w0 EXCEPT !.t = [@ EXCEPT !.pc = "raised"]]
             ELSE NextIteration(w0, i, st.requests[i], 0)
    IN  [task |-> [st.task EXCEPT ![i] = Settle(i, w.t)], sv |-> w.sv,
         fl |-> w.fl, cfg |-> w.cfg,
         requests |-> [st.requests EXCEPT ![i] = w.rq],
         order |-> IF w.t.pc = "done" THEN Append(st.order, i) ELSE st.order]

RECURSIVE FirstSteps(_, _)
FirstSteps(st, i) ==
    IF i > Len(requests) THEN st ELSE FirstSteps(FirstStep(st, i), i + 1)

\* The tasks fetch_all created run for the first time.  create_task queued
\* them one after the other, so the event loop runs their first steps back to
\* back, in the order of the list, with no other coroutine in between.
StartBatch ==
    /\ Len(requests) >= 1
    /\ \A i \in 1..Len(requests) : task[i].pc = "new"
    /\ LET st == FirstSteps([task |-> task, sv |-> semValue, fl |-> inflight,
                             cfg |-> [headers |-> headers,
                                      cookies |-> cookies],
                             requests |-> requests, order |-> order], 1)
       IN  /\ task' = st.task
           /\ semValue' = st.sv
           /\ inflight' = st.fl
           /\ order' = st.order
           /\ headers' = st.cfg.headers
           /\ cookies' = st.cfg.cookies
           /\ requests' = st.requests
    /\ UNCHANGED <<config, scope, session, semaphore, nSetups, cleanupPc,
                   batch, returned>>

\* A task waiting in Semaphore.acquire gets its slot.
Acquire(i) ==
    /\ task[i].pc = "acquire"
    /\ ~Locked(semValue, task[i].held)
    /\ Commit(i, IssueRequest([World(i) EXCEPT
                                  !.sv = SemAcquire(@, task[i].held)],
                              i, requests[i]))
    /\ UNCHANGED <<config, scope, session, semaphore, nSetups, cleanupPc,
                   batch, returned>>

\* The exchange completes with an HTTP status and a body: the response is
\* built and returned from inside the two "async with" blocks.
Complete(i, status, text) ==
    /\ task[i].pc = "exchange"
    /\ LET w == EndExchange(World(i), i)
       IN  Commit(i, Completed([w EXCEPT !.t.completed = status], i,
                               requests[i], status, text))
    /\ UNCHANGED <<config, scope, session, semaphore, nSetups, cleanupPc,
                   batch, returned>>

\* The exchange raises: asyncio.TimeoutError, aiohttp.ClientError or any
\* other Exception.
Fail(i, kind) ==
    /\ task[i].pc = "exchange"
    /\ Commit(i, Failed(EndExchange(World(i), i), i, requests[i], kind))
    /\ UNCHANGED <<config, scope, session, semaphore, nSetups, cleanupPc,
                   batch, returned>>

\* asyncio.sleep(wait_time) is over: the next iteration of the loop.
Wake(i) ==
    /\ task[i].pc = "sleep"
    /\ Commit(i, NextIteration(World(i), i, requests[i], task[i].attempt + 1))
    /\ UNCHANGED <<config, scope, session, semaphore, nSetups, cleanupPc,
                   batch, returned>>

\* GatherResults in the order the tasks finished.
GatherCompletionOrder == [i \in 1..Len(requests) |-> task[order[i]].result]

\* asyncio.gather(*tasks): the results in the order of the tasks
GatherResults == [i \in 1..Len(requests) |-> task[i].result]

\* fetch_all returns when every task has returned.
FetchAllReturn ==
    /\ batch = "running"
    /\ \A i \in 1..Len(requests) : task[i].pc = "done"
    /\ batch' = "returned"
    /\ returned' = GatherResults
    /\ UNCHANGED <<config, shared, scope, session, semaphore, semValue,
                   inflight, nSetups, cleanupPc, requests, task, order>>

\* gather re-raises the first exception of a task.
FetchAllRaise ==
    /\ batch = "running"
    /\ \E i \in 1..Len(requests) : task[i].pc = "raised"
    /\ batch' = "raised"
    /\ UNCHANGED <<config, shared, scope, session, semaphore, semValue,
                   inflight, nSetups, cleanupPc, requests, task, order,
                   returned>>

Next ==
    \/ Setup /\ UNCHANGED scope
    \/ CleanupBegin /\ UNCHANGED scope
    \/ CleanupEnd /\ UNCHANGED scope
    \/ \E n \in 0..NumReq : FetchAll(n)
    \/ StartBatch
    \/ \E i \in Tasks : Acquire(i)
    \/ \E i \in Tasks, s \in Statuses : Complete(i, s, Body)
    \/ \E i \in Tasks, k \in Failures : Fail(i, k)
    \/ \E i \in Tasks : Wake(i)
    \/ FetchAllReturn
    \/ FetchAllRaise

Spec == Init /\ [][Next]_vars

\* ------------------------------------------------------ batches that go on
\* The exchange of task i ends: it completes, fails or times out.
ExchangeEnds(i) ==
    \/ \E s \in Statuses : Complete(i, s, Body)
    \/ \E k \in Failures : Fail(i, k)

\* The tasks of a new batch are ready to run.
CanStart ==
    /\ Len(requests) >= 1
    /\ \A i \in 1..Len(requests) : task[i].pc = "new"

\* Task i waits for a slot and one is free.
CanAcquire(i) == task[i].pc = "acquire" /\ ~Locked(semValue, task[i].held)

\* What the event loop and the network owe the engine: a task that can run
\* is run (the tasks of a new batch, a task woken by a free slot or by the
\* end of its sleep, fetch_all once its tasks are over), and every exchange
\* ends.  Nothing is owed by the caller: setup and cleanup may never come.
\* This is weak fairness of each of these steps; for the steps of a fetch
\* it is written with the states that enable the step spelled out.
Fairness ==
    /\ WF_vars(FetchAllReturn)
    /\ WF_vars(FetchAllRaise)
    /\ []<>(~CanStart) \/ []<><<StartBatch>>_vars
    /\ \A i \in Tasks :
          /\ []<>(~CanAcquire(i)) \/ []<><<Acquire(i)>>_vars
          /\ []<>(task[i].pc # "sleep") \/ []<><<Wake(i)>>_vars
          /\ []<>(task[i].pc # "exchange") \/ []<><<ExchangeEnds(i)>>_vars

SpecLive == Init /\ [][Next]_vars /\ Fairness

\* -------------------------------------------- batches with their histories
\* Batches as in Init with at least one attempt for a fetch, every call
\* keeping the record of what it did.
InitObserved ==
    /\ observed = Tasks
    /\ max_retries \in 1..MaxRetries
    /\ max_concurrent_requests \in 1..MaxConc
    /\ retry_delay = DefaultRetryDelay
    /\ Constructed
    /\ Defaults

SpecObserved == InitObserved /\ [][Next]_vars

\* ------------------------------------------------- a single fetch, in depth
\* One request with up to DeepRetries attempts and every retry delay: the
\* retry loop and its backoff arithmetic over more iterations than a batch
\* allows; the call keeps its history.  A lone fetch never finds the
\* semaphore locked, so it never waits in Semaphore.acquire and Acquire has
\* no step here.
InitSingle ==
    /\ observed = {1}
    /\ max_retries \in 0..DeepRetries
    /\ max_concurrent_requests \in 1..MaxConc
    /\ retry_delay \in RetryDelays
    /\ Constructed
    /\ Defaults

NextSingle ==
    \/ Setup /\ UNCHANGED scope
    \/ CleanupBegin /\ UNCHANGED scope
    \/ CleanupEnd /\ UNCHANGED scope
    \/ FetchAll(1)
    \/ StartBatch
    \/ \E s \in Statuses : Complete(1, s, Body)
    \/ \E k \in Failures : Fail(1, k)
    \/ Wake(1)
    \/ FetchAllReturn
    \/ FetchAllRaise

SpecSingle == InitSingle /\ [][NextSingle]_vars

\* ------------------------------------------------ the engine in a scope
\* __aexit__ returning True.
AexitReturnsTrue == TRUE

\* return False at the end of BaseCrawler.__aexit__
AexitReturns == FALSE

\* "async with crawler:" is entered: __aenter__ awaits setup.
Aenter ==
    /\ scope = "out"
    /\ Setup
    /\ scope' = "in"

\* The block ends, normally or by an exception raised in it, and __aexit__
\* runs up to the first await of cleanup.
BlockExit(exception) ==
    /\ scope = "in"
    /\ CleanupBegin
    /\ scope' = IF exception THEN "aexit_exc" ELSE "aexit"

\* cleanup finishes and __aexit__ returns: the "async with" statement is
\* left, and an exception of the block goes on unless __aexit__ returned a
\* true value.
AexitReturn ==
    /\ scope \in {"aexit", "aexit_exc"}
    /\ CleanupEnd
    /\ scope' = IF scope = "aexit" THEN "left"
                ELSE IF AexitReturns THEN "suppressed" ELSE "propagated"

\* The engine used only in one "async with" block, the fetches started in
\* the block.
NextScoped ==
    \/ Aenter
    \/ \E exception \in BOOLEAN : BlockExit(exception)
    \/ AexitReturn
    \/ \E n \in 0..NumReq : scope = "in" /\ FetchAll(n)
    \/ StartBatch
    \/ \E i \in Tasks : Acquire(i)
    \/ \E i \in Tasks, s \in Statuses : Complete(i, s, Body)
    \/ \E i \in Tasks, k \in Failures : Fail(i, k)
    \/ \E i \in Tasks : Wake(i)
    \/ FetchAllReturn
    \/ FetchAllRaise

SpecScoped == Init /\ [][NextScoped]_vars

\* ------------------------------------------------------- the proxy pool
\* Proxies.__init__ up to the loop of _check_proxies: the string is loaded,
\* which can raise; an empty list is not checked.
ProxiesInit ==
    /\ poolPc = "new"
    /\ LET loaded == load_proxies(proxies, files)
       IN  IF loaded.raised
           THEN /\ poolPc' = "raised"
                /\ UNCHANGED proxy_list
           ELSE /\ proxy_list' = loaded.list
                /\ poolPc' = IF loaded.list = <<>> THEN "ready" ELSE "checking"
    /\ UNCHANGED <<settings, shared, documents, engine, scope, probed,
                   rotated>>

\* One iteration of the loop of _check_proxies: the probe of the next proxy
\* passes or fails.
CheckProxy(ok) ==
    /\ poolPc = "checking"
    /\ LET list == check_proxies_body(proxy_list, Len(probed) + 1, ok)
       IN  /\ proxy_list' = list
           /\ probed' = Append(probed, ok)
           /\ poolPc' = IF Len(probed) + 1 >= Len(list) THEN "ready"
                        ELSE "checking"
    /\ UNCHANGED <<settings, shared, documents, engine, scope, rotated>>

\* A call of rotate_proxy on the pool.
Rotate(pick) ==
    /\ poolPc = "ready"
    /\ rotated' = <<rotate_proxy(proxy_list, pick)>>
    /\ UNCHANGED <<settings, shared, documents, engine, scope, poolPc,
                   proxy_list, probed>>

\* Proxies(string) for every short string and for the inline example, with
\* and without a file; the engine is not used.
InitProxies ==
    /\ proxies \in Strings(MaxLen) \cup {InlineExample}
    /\ files \in FileSystems
    /\ poolPc = "new"
    /\ proxy_list = <<>>
    /\ probed = <<>>
    /\ rotated = <<>>
    /\ observed = {}
    /\ max_retries = 0
    /\ max_concurrent_requests = 1
    /\ retry_delay = DefaultRetryDelay
    /\ extraction_strategy = None
    /\ request_strategy = None
    /\ picks \in PickSources({})
    /\ scope = "out"
    /\ PlainHeaders
    /\ NoPage
    /\ Constructed

NextProxies ==
    \/ ProxiesInit
    \/ \E ok \in BOOLEAN : CheckProxy(ok)
    \/ \E pick \in Picks(proxy_list) : Rotate(pick)

SpecProxies == InitProxies /\ [][NextProxies]_vars

\* ------------------------------------------------ the engine's construction
\* The methods BaseCrawler declares with @abstractmethod.
BaseCrawlerAbstract == {"setup", "cleanup", "fetch", "fetch_many"}

\* The methods the body of class AsyncCrawler defines.
AsyncCrawlerDefines ==
    {"__init__", "setup", "cleanup", "_init_extractors", "_get_extractor",
     "fetch", "fetch_all"}

\* __abstractmethods__ of a class that derives from one with the abstract
\* methods "inherited" and defines "defined", none of them abstract.
abstractmethods(inherited, defined) == inherited \ defined

\* AsyncCrawler(config): object.__new__ raises TypeError for a class whose
\* __abstractmethods__ is not empty, before __init__ runs; otherwise the
\* engine is built.
Instantiate ==
    /\ crawler = "none"
    /\ crawler' = IF abstractmethods(BaseCrawlerAbstract,
                                     AsyncCrawlerDefines) = {}
                  THEN "constructed" ELSE "raised"
    /\ UNCHANGED <<max_retries, max_concurrent_requests, retry_delay,
                   observed, extraction_strategy, request_strategy, picks,
                   proxies, files, request_headers, request_cookies, shared,
                   documents, engine, scope, poolPc, proxy_list, probed,
                   rotated>>

\* AsyncCrawler(config) under every small config, the engine not yet built.
InitConstruct ==
    /\ crawler = "none"
    /\ AtRest
    /\ observed = {}
    /\ max_retries \in 0..MaxRetries
    /\ max_concurrent_requests \in 1..MaxConc
    /\ retry_delay \in RetryDelays
    /\ extraction_strategy \in Strategies
    /\ request_strategy = None
    /\ proxies \in Strings(MaxLen) \cup {InlineExample}
    /\ files = {}
    /\ poolPc = "new"
    /\ proxy_list = <<>>
    /\ probed = <<>>
    /\ rotated = <<>>
    /\ picks \in PickSources({})
    /\ scope = "out"
    /\ PlainHeaders
    /\ NoPage

SpecConstruct == InitConstruct /\ [][Instantiate]_vars

\* ------------------------------------------------- fetches with extraction
\* One request under every pair of a config strategy and a request strategy;
\* the call keeps its history.
InitExtract ==
    /\ observed = {1}
    /\ max_retries \in 0..MaxRetries
    /\ max_concurrent_requests \in 1..MaxConc
    /\ retry_delay = DefaultRetryDelay
    /\ Constructed
    /\ extraction_strategy \in Strategies
    /\ request_strategy \in Strategies
    /\ PoolBuilt(<<>>, {})
    /\ picks \in PickSources({})
    /\ scope = "out"
    /\ PlainHeaders
    /\ NoPage

\* Exchanges complete with a status around 200..299 or an error status, and
\* with a body that can be processed or one that cannot.
NextExtract ==
    \/ Setup /\ UNCHANGED scope
    \/ CleanupBegin /\ UNCHANGED scope
    \/ CleanupEnd /\ UNCHANGED scope
    \/ FetchAll(1)
    \/ StartBatch
    \/ \E s \in EdgeStatuses, text \in Pages : Complete(1, s, text)
    \/ \E k \in Failures : Fail(1, k)
    \/ Wake(1)
    \/ FetchAllReturn
    \/ FetchAllRaise

SpecExtract == InitExtract /\ [][NextExtract]_vars

\* ------------------------------------------ the inside of the two blocks
\* BodyRead giving the slot back once the body is read.
BodyReadReleasesSlot(w, i, req, status, text) ==
    [w EXCEPT !.t = [@ EXCEPT !.pc = "extract", !.completed = status,
                              !.result = ExchangeResponse(req, status, text)],
              !.sv = SemRelease(@, w.t.held)]

\* response.read() and response.text() have returned and crawl_response is
\* built: the coroutine of task i is at the extraction, inside both "async
\* with" blocks.
BodyRead(w, i, req, status, text) ==
    [w EXCEPT !.t = [@ EXCEPT !.pc = "extract", !.completed = status,
                              !.result = ExchangeResponse(req, status, text)]]

\* Leaving "async with session.request(...)" and "async with
\* self._semaphore" with the slot g and the exchange of the attempt.
ExitBlocks(w, g, exchange) ==
    [w EXCEPT !.sv = SemRelease(@, g), !.fl = @ \ {exchange}]

\* No coroutine is between two awaits: the event loop can run any of them.
LoopIdle == \A i \in Tasks : task[i].pc # "extract"

\* The exchange of task i delivers its status and its body.
Respond(i, status, text) ==
    /\ task[i].pc = "exchange"
    /\ Commit(i, BodyRead(World(i), i, requests[i], status, text))
    /\ UNCHANGED <<config, scope, session, semaphore, nSetups, cleanupPc,
                   batch, returned>>

\* The rest of the attempt of task i, with no await in it: the extraction,
\* the payload attached to the response, the return, and on the way out of
\* the two blocks the exchange ended and the slot given back.
Extract(i) ==
    /\ task[i].pc = "extract"
    /\ Commit(i, ExitBlocks(Completed(World(i), i, requests[i],
                                      task[i].result.status,
                                      task[i].result.text),
                            task[i].held, <<i, task[i].attempt>>))
    /\ UNCHANGED <<config, scope, session, semaphore, nSetups, cleanupPc,
                   batch, returned>>

\* Batches under every config strategy, with at least one attempt.
InitSlot ==
    /\ observed = {}
    /\ max_retries \in 1..MaxRetries
    /\ max_concurrent_requests \in 1..MaxConc
    /\ retry_delay = DefaultRetryDelay
    /\ Constructed
    /\ extraction_strategy \in Strategies
    /\ request_strategy = None
    /\ PoolBuilt(<<>>, {})
    /\ picks \in PickSources({})
    /\ scope = "out"
    /\ PlainHeaders
    /\ NoPage

\* The steps of Next with the completion of an exchange in two: the body
\* read, after which the coroutine runs on without an await, and the rest.
NextSlot ==
    \/ LoopIdle /\ Setup /\ UNCHANGED scope
    \/ LoopIdle /\ CleanupBegin /\ UNCHANGED scope
    \/ LoopIdle /\ CleanupEnd /\ UNCHANGED scope
    \/ LoopIdle /\ \E n \in 0..NumReq : FetchAll(n)
    \/ LoopIdle /\ StartBatch
    \/ LoopIdle /\ \E i \in Tasks : Acquire(i)
    \/ LoopIdle /\ \E i \in Tasks, s \in Statuses, text \in Pages :
                       Respond(i, s, text)
    \/ \E i \in Tasks : Extract(i)
    \/ LoopIdle /\ \E i \in Tasks, k \in Failures : Fail(i, k)
    \/ LoopIdle /\ \E i \in Tasks : Wake(i)
    \/ LoopIdle /\ FetchAllReturn
    \/ LoopIdle /\ FetchAllRaise

SpecSlot == InitSlot /\ [][NextSlot]_vars

\* ---------------------------------------- fetches with headers and cookies
HeaderNames == {"User-Agent", "Accept"}
CookieNames == {"sid"}

\* CrawlerConfig.__post_init__: the user agent is set unless the headers
\* have one.
PostInit(d) ==
    IF "User-Agent" \in Keys(d) THEN d
    ELSE d \cup {<<"User-Agent", UserAgent>>}

\* One request under every choice of the config's and the request's headers
\* and cookies, with keys of one, of the other and of both; the call keeps
\* its history.
InitMerge ==
    /\ observed = {1}
    /\ max_retries \in 0..MaxRetries
    /\ max_concurrent_requests = 1
    /\ retry_delay = DefaultRetryDelay
    /\ Constructed
    /\ headers \in {PostInit(d) : d \in Dicts(HeaderNames)}
    /\ cookies \in Dicts(CookieNames)
    /\ request_headers \in Dicts(HeaderNames)
    /\ request_cookies \in Dicts(CookieNames)
    /\ extraction_strategy = None
    /\ request_strategy = None
    /\ PoolBuilt(<<>>, {})
    /\ picks \in PickSources({})
    /\ scope = "out"
    /\ NoPage

SpecMerge == InitMerge /\ [][NextSingle]_vars

\* ------------------------------------------------ the extractors on a page
\* The elements explored: links whose hrefs resolve to one URL or to
\* another, images likewise, headings of two levels, paragraphs of 5 and of
\* 10 characters and one of 9 between two spaces, and a bold word.
Elements ==
    {Element("a", "body", Repeat("l", 10), url) :
         url \in {<<"/", "a">>, <<"a">>, <<"b">>}}
    \cup {Element("img", "body", <<"i">>, url) :
              url \in {<<"/", "a">>, <<"a">>}}
    \cup {Element("h1", "body", Repeat("H", 16), <<>>),
          Element("h2", "body", Repeat("h", 10), <<>>),
          Element("p", "body", Repeat("p", 5), <<>>),
          Element("p", "body", Repeat("q", 10), <<>>),
          Element("p", "body", <<" ">> \o Repeat("r", 9) \o <<" ">>, <<>>),
          Element("strong", "body", <<"s">>, <<>>)}

\* The pages of at most MaxElems of these elements.
Trees == UNION {[1..n -> Elements] : n \in 0..MaxElems}

\* A call of _extract_links on the page: the set puts its URLs in some order.
ExtractLinks ==
    /\ \E ordering \in Orderings(Range(Resolved(tree, {"a"}, BaseUrl))) :
          output' = <<[call |-> "links",
                       value |-> page_links(tree, BaseUrl, extraction_config,
                                            ordering)]>>
    /\ UNCHANGED <<settings, shared, engine, scope, poolPc, proxy_list,
                   probed, rotated, extraction_config, tree>>

\* A call of _extract_images on the page.
ExtractImages ==
    /\ \E ordering \in Orderings(Range(Resolved(tree, {"img"}, BaseUrl))) :
          output' = <<[call |-> "images",
                       value |-> page_images(tree, BaseUrl, extraction_config,
                                             ordering)]>>
    /\ UNCHANGED <<settings, shared, engine, scope, poolPc, proxy_list,
                   probed, rotated, extraction_config, tree>>

\* A call of _convert_to_markdown on the page.
ConvertToMarkdown ==
    /\ output' = <<[call |-> "markdown",
                    value |-> convert_to_markdown(tree, BaseUrl,
                                                  extraction_config)]>>
    /\ UNCHANGED <<settings, shared, engine, scope, poolPc, proxy_list,
                   probed, rotated, extraction_config, tree>>

\* One element of each kind _convert_to_markdown looks for (an h1 and an h2
\* for the headings), each with a text of its own letter, long enough to be
\* kept, and none of the letters in the URLs.
Kinds ==
    {Element("h1", "body", Repeat("A", 10), <<>>),
     Element("h2", "body", Repeat("B", 10), <<>>),
     Element("p", "body", Repeat("C", 10), <<>>),
     Element("a", "body", Repeat("D", 10), <<"/", "a">>),
     Element("img", "body", <<"E">>, <<"/", "a">>),
     Element("li", "ol", Repeat("F", 10), <<>>),
     Element("li", "ul", Repeat("G", 10), <<>>),
     Element("code", "pre", <<"I">>, <<>>),
     Element("code", "body", <<"J">>, <<>>),
     Element("blockquote", "body", Repeat("K", 10), <<>>),
     Element("strong", "body", <<"L">>, <<>>),
     Element("em", "body", <<"M">>, <<>>)}

\* _convert_to_markdown with ExtractionConfig's defaults on every page of at
\* most MaxElems of these elements; the engine is not used.
InitMarkdown ==
    /\ extraction_config = ExtractionConfig(TRUE, TRUE)
    /\ tree \in UNION {[1..n -> Kinds] : n \in 0..MaxElems}
    /\ output = <<>>
    /\ observed = {}
    /\ max_retries = 0
    /\ max_concurrent_requests = 1
    /\ retry_delay = DefaultRetryDelay
    /\ extraction_strategy = None
    /\ request_strategy = None
    /\ PoolBuilt(<<>>, {})
    /\ picks \in PickSources({})
    /\ scope = "out"
    /\ PlainHeaders
    /\ Constructed

SpecMarkdown == InitMarkdown /\ [][ConvertToMarkdown]_vars

\* The extractors with every setting of preserve_links and preserve_images,
\* on every page; the engine is not used.
InitPage ==
    /\ extraction_config \in
          {ExtractionConfig(l, i) : l \in BOOLEAN, i \in BOOLEAN}
    /\ tree \in Trees
    /\ output = <<>>
    /\ observed = {}
    /\ max_retries = 0
    /\ max_concurrent_requests = 1
    /\ retry_delay = DefaultRetryDelay
    /\ extraction_strategy = None
    /\ request_strategy = None
    /\ PoolBuilt(<<>>, {})
    /\ picks \in PickSources({})
    /\ scope = "out"
    /\ PlainHeaders
    /\ Constructed

NextPage ==
    \/ ExtractLinks
    \/ ExtractImages
    \/ ConvertToMarkdown

SpecPage == InitPage /\ [][NextPage]_vars

\* ------------------------------------------------- fetches through proxies
\* config.proxies values explored with fetches: no proxy, one, two
PoolStrings == {<<>>, <<"a">>, <<"a", ",", "b">>}

\* Batches on an engine with a proxy pool; the first call keeps its history.
InitRotate ==
    /\ observed = {1}
    /\ max_retries \in 0..MaxRetries
    /\ max_concurrent_requests \in 1..MaxConc
    /\ retry_delay = DefaultRetryDelay
    /\ Constructed
    /\ extraction_strategy = None
    /\ request_strategy = None
    /\ \E string \in PoolStrings : PoolBuilt(string, {})
    /\ picks \in PickSources({1})
    /\ scope = "out"
    /\ PlainHeaders
    /\ NoPage

SpecRotate == InitRotate /\ [][Next]_vars

\* ------------------------------------------------------------------ claims
InFlightOf(i) == {x \in inflight : x[1] = i}

\* C1: the list fetch_all returns has one response per request, and the
\* response at position i is the one the fetch of request i returned (it
\* carries that request's metadata), whatever order the fetches finished in.
FetchAllInOrder ==
    batch = "returned" =>
        /\ Len(returned) = Len(requests)
        /\ \A i \in 1..Len(requests) :
              /\ returned[i] = task[i].result
              /\ returned[i].metadata = requests[i].metadata

\* fetch_all has returned a batch whose fetches finished out of input order.
FetchAllOutOfOrderWitness ==
    /\ batch = "returned"
    /\ Len(requests) >= 2
    /\ \E j \in 1..Len(order) : order[j] # j

\* C2: in every reachable state the exchanges in flight of the engine, over
\* all its fetch calls, number at most max_concurrent_requests.
InFlightWithinLimit == Cardinality(inflight) <= max_concurrent_requests

\* C3: a fetch that starts on an engine without a session raises at once:
\* its step changes nothing but its own position (no rotation, no slot, no
\* exchange, no backoff), and it takes no step afterwards.
NotSetUpRaisesAtOnce ==
    [][\A i \in Tasks :
          /\ (task[i].pc = "new" /\ session = "none" /\ task'[i] # task[i]) =>
                /\ task'[i] = [task[i] EXCEPT !.pc = "raised"]
                /\ task'[i].rotations = 0 /\ task'[i].started = 0
                /\ task'[i].sleeps = <<>> /\ task'[i].held = 0
                /\ semValue' = semValue
                /\ inflight' = inflight
          /\ (task[i].pc = "raised" => task'[i] = task[i])]_vars

\* A fetch has raised the not-initialized error.
NotSetUpRaisedWitness == \E i \in Tasks : task[i].pc = "raised"

\* C4: a fetch that found a session never raises, whatever fails in its
\* attempts, and what it returns is a CrawlResponse.
FetchNeverRaisesOnceSetUp ==
    /\ [](\A i \in Tasks : task[i].pc = "done" => task[i].result # NoResponse)
    /\ [][\A i \in Tasks :
             (task[i].pc # "raised" /\ task'[i].pc = "raised") =>
                 (task[i].pc = "new" /\ session = "none")]_vars

\* A fetch has returned after an attempt raised an error that is neither a
\* timeout nor a client error.
UnexpectedErrorReturnedWitness ==
    \E i \in Tasks :
        /\ task[i].pc = "done"
        /\ task[i].result.error = "Unexpected error: e"

\* C5 to C8 are about what a fetch did over its whole run, so they are
\* stated of the observed calls, which keep that record.

\* C5: when all max_retries attempts of a fetch have failed (there being at
\* least one), it returns status 0, empty content and text, and an error.
AllAttemptsFailedResponse ==
    \A i \in observed :
        (task[i].pc = "done" /\ max_retries >= 1
                             /\ task[i].failures = max_retries) =>
            /\ task[i].result.status = 0
            /\ task[i].result.content = ""
            /\ task[i].result.text = ""
            /\ task[i].result.error # None

\* A fetch has returned after two or more attempts that all failed.
AllAttemptsFailedWitness ==
    \E i \in observed :
        /\ task[i].pc = "done"
        /\ max_retries >= 2
        /\ task[i].failures = max_retries

\* C6: when the first max_retries - 1 attempts fail (by timeout, client error
\* or otherwise) and the exchange of the last one completes with a 2xx
\* status, the response has that status and no error and is a success.
RetryThenSuccess ==
    \A i \in observed :
        (/\ task[i].pc = "done"
         /\ max_retries >= 1
         /\ task[i].failures = max_retries - 1
         /\ 200 <= task[i].completed /\ task[i].completed < 300) =>
            /\ task[i].result.error = None
            /\ task[i].result.status = task[i].completed
            /\ is_success(task[i].result)

\* A fetch with max_retries = 2 has timed out once and then succeeded.
RetryThenSuccessWitness ==
    \E i \in observed :
        /\ task[i].pc = "done"
        /\ max_retries = 2
        /\ task[i].failures = 1
        /\ task[i].last_error = "Timeout error: e"
        /\ task[i].completed = 200
        /\ is_success(task[i].result)

RECURSIVE Doubled(_, _)
\* d doubled k times
Doubled(d, k) == IF k = 0 THEN d ELSE 2 * Doubled(d, k - 1)

\* C7: the k-th failure of a fetch (attempt k - 1) is followed by a sleep of
\* retry_delay doubled k - 1 times when another attempt remains, and by no
\* sleep and the return when it was the last attempt; every attempt after the
\* first starts after such a sleep.
BackoffSchedule ==
    \A i \in observed :
        LET t == task[i]
        IN  /\ \A j \in 1..Len(t.sleeps) :
                  t.sleeps[j] = Doubled(retry_delay, j - 1)
            /\ Len(t.sleeps) =
                  (IF t.failures < max_retries THEN t.failures
                   ELSE IF max_retries = 0 THEN 0 ELSE max_retries - 1)
            /\ (t.failures >= 1 /\ t.failures = max_retries) => t.pc = "done"
            /\ t.pc = "sleep" => Len(t.sleeps) = t.attempt + 1
            /\ t.rotations >= 1 => Len(t.sleeps) >= t.rotations - 1

\* A fetch with retry_delay 3 has failed four times and slept 3, 6 and 12.
BackoffScheduleWitness ==
    \E i \in observed :
        /\ task[i].pc = "done"
        /\ task[i].failures = 4
        /\ task[i].sleeps = <<3, 6, 12>>

\* C8: a fetch issues at most max_retries exchanges (and begins at most
\* max_retries attempts), and takes no step once an exchange has completed.
AtMostMaxRetriesAttempts ==
    /\ [](\A i \in observed : /\ task[i].started <= max_retries
                              /\ task[i].rotations <= max_retries)
    /\ [][\A i \in observed : task[i].completed # 0 => task'[i] = task[i]]_vars

\* A fetch has issued max_retries exchanges, two or more.
MaxRetriesAttemptsWitness ==
    \E i \in observed :
        /\ task[i].pc = "done"
        /\ max_retries >= 2
        /\ task[i].started = max_retries

\* C11: an exchange that completes with a status outside 200..299 ends the
\* fetch at that attempt: the fetch has returned, with that status and no
\* error; only the attempts before it failed and slept, and the fetch takes
\* no step afterwards.
NonSuccessStatusEndsFetch ==
    /\ [](\A i \in observed :
            LET t == task[i]
            IN  (t.completed # 0 /\ ~(200 <= t.completed /\ t.completed < 300))
                => /\ t.pc = "done"
                   /\ t.result.status = t.completed
                   /\ t.result.error = None
                   /\ t.failures = t.attempt
                   /\ Len(t.sleeps) = t.attempt
                   /\ t.rotations = t.attempt + 1)
    /\ [][\A i \in observed :
             (task[i].completed # 0 /\ ~(200 <= task[i].completed
                                          /\ task[i].completed < 300))
                 => task'[i] = task[i]]_vars

\* A fetch allowed two or more attempts has returned a 404 from its first.
NonSuccessStatusWitness ==
    \E i \in observed :
        /\ task[i].pc = "done"
        /\ max_retries >= 2
        /\ task[i].attempt = 0
        /\ task[i].completed = 404
        /\ task[i].result.status = 404

\* C12: every attempt of a fetch calls rotate_proxy exactly once, and does so
\* before it has its slot: the calls made number the attempts begun, also
\* while the fetch waits for the slot of its attempt; the proxy of an attempt
\* is the one its own call returned.
RotationPerAttempt ==
    \A i \in observed :
        LET t == task[i]
        IN  /\ Len(t.used) = t.rotations
            /\ t.pc \in {"acquire", "exchange", "sleep"} =>
                  /\ t.rotations = t.attempt + 1
                  /\ t.proxy = t.used[t.attempt + 1]
                  /\ t.proxy = rotate_proxy(proxy_list, picks[i][t.attempt])
            /\ t.pc = "done" =>
                  t.rotations = (IF max_retries = 0 THEN 0 ELSE t.attempt + 1)
            /\ t.pc \in {"new", "raised"} => t.rotations = 0
            /\ t.started <= t.rotations

\* A fetch waits for the slot of its second attempt, having rotated twice and
\* got two different proxies.
RotatedBeforeSlotWitness ==
    \E i \in observed :
        /\ task[i].pc = "acquire"
        /\ task[i].attempt = 1
        /\ Len(task[i].used) = 2
        /\ task[i].used[1] # task[i].used[2]

\* C13: what rotate_proxy returns is an element of the pool when the pool is
\* not empty and the "no proxy" value when it is, after any number of
\* calls; no call changes the pool.
RotateWithinPool ==
    /\ [](rotated # <<>> =>
            IF proxy_list = <<>> THEN rotated[1] = Proxy(<<>>)
            ELSE \E k \in 1..Len(proxy_list) : rotated[1] = proxy_list[k])
    /\ [][(poolPc = "ready" /\ rotated' # rotated)
             => proxy_list' = proxy_list]_vars

\* rotate_proxy has returned the second proxy of a pool of two or more.
RotateWithinPoolWitness ==
    /\ Len(proxy_list) >= 2
    /\ rotated = <<proxy_list[2]>>

\* C14: a string that names no file is loaded as an inline list: Proxies is
\* constructed and its pool holds the stripped non-empty items of the string
\* between the commas, in order.
InlineListLoaded ==
    (poolPc # "new" /\ proxies \notin files) =>
        /\ poolPc # "raised"
        /\ proxy_list = Proxied(Split(proxies, ","), FALSE)

ScopedCleanup ==
    /\ [](scope \in {"left", "propagated", "suppressed"} =>
            (session = "none" /\ semaphore = 0 /\ cleanupPc = "idle"))
    /\ [](scope # "suppressed")
    /\ [][/\ scope = "aexit_exc" => scope' \in {"aexit_exc", "propagated"}
          /\ scope = "aexit" => scope' \in {"aexit", "left"}
          /\ scope' = "propagated" => scope \in {"aexit_exc", "propagated"}]_vars

\* The block was left by an exception while a fetch started in it was still
\* running, and the exception has gone on after cleanup.
ScopedExceptionWitness ==
    /\ scope = "propagated"
    /\ session = "none"
    /\ \E i \in Tasks : task[i].pc \in {"acquire", "exchange", "sleep"}

\* The step is a timeout of the exchange of task i.
TimesOut(i) ==
    /\ task[i].pc = "exchange"
    /\ \/ task'[i].pc = "sleep" /\ task'[i].last_error = "Timeout error: e"
       \/ task'[i].pc = "done" /\ task'[i].result.error = "Timeout error: e"

\* C17: a timeout of an exchange is a failure of its own fetch only: the
\* step gives back the slot of that attempt and ends that exchange, the
\* fetch goes to its backoff or returns its failure response, and every
\* other fetch, every other exchange in flight, the session and the
\* semaphore are as they were.
TimeoutIsLocal ==
    [][\A i \in Tasks :
          TimesOut(i) =>
              /\ \A j \in Tasks \ {i} : task'[j] = task[j]
              /\ inflight' = inflight \ {<<i, task[i].attempt>>}
              /\ semValue' = [semValue EXCEPT ![task[i].held] = @ + 1]
              /\ task'[i].held = 0
              /\ task'[i].pc = "done" =>
                    (task'[i].result.status = 0
                         /\ task[i].attempt = max_retries - 1)
              /\ <<session, semaphore, cleanupPc, requests, batch>>' =
                    <<session, semaphore, cleanupPc, requests, batch>>]_vars

\* A fetch sleeps after a timeout while the exchange of another fetch, in
\* flight when the timeout happened, is still in flight.
TimeoutBesideExchangeWitness ==
    \E i, j \in Tasks :
        /\ i # j
        /\ task[i].pc = "sleep"
        /\ task[i].attempt = 0
        /\ task[i].last_error = "Timeout error: e"
        /\ task[j].pc = "exchange"
        /\ task[j].attempt = 0
        /\ session = "open"
        /\ nSetups = 1

\* C18: a response with an error has status 0 and empty content and text,
\* be it the result of a fetch or an element of what fetch_all returned; a
\* response with another status has no error.
ErrorMeansSentinel ==
    /\ \A i \in Tasks :
          task[i].pc = "done" =>
              /\ task[i].result.error # None =>
                    /\ task[i].result.status = 0
                    /\ task[i].result.content = ""
                    /\ task[i].result.text = ""
              /\ task[i].result.status # 0 => task[i].result.error = None
    /\ \A k \in 1..Len(returned) :
          returned[k].error # None =>
              /\ returned[k].status = 0
              /\ returned[k].content = ""
              /\ returned[k].text = ""

\* fetch_all has returned a response with an error beside a 404 response.
ErrorAndStatusWitness ==
    /\ batch = "returned"
    /\ \E j, k \in 1..Len(returned) :
          /\ returned[j].error # None
          /\ returned[k].status = 404

\* The extracted payload of the response task i returned, if it has one.
ExtractedOf(i) == task[i].result.extracted

\* C19: for each of the three extractors, a status outside 200..299 gives
\* an ExtractedContent with the error "HTTP <status>", empty content and
\* no metadata, links or images, whether or not the page can be processed.
NonSuccessShortCircuits ==
    \A i \in observed :
        (/\ task[i].pc = "done"
         /\ ExtractedOf(i) # NoExtracted
         /\ ~(200 <= task[i].completed /\ task[i].completed < 300)) =>
            /\ ExtractedOf(i)[1] =
                  ExtractedContent("", {}, {}, {},
                      ExtractedOf(i)[1].extraction_type,
                      "HTTP " \o ToString(task[i].completed))
            /\ ExtractedOf(i)[1].extraction_type \in Registered
            /\ ExtractedOf(i)[1].extraction_type =
                  ExtractionType(requests[i])

\* The Markdown extractor was given a 500 response with a page that cannot
\* be processed, and reports "HTTP 500".
NonSuccessShortCircuitWitness ==
    \E i \in observed :
        /\ task[i].pc = "done"
        /\ task[i].completed = 500
        /\ task[i].result.text = BadBody
        /\ ExtractedOf(i) # NoExtracted
        /\ ExtractedOf(i)[1].extraction_type = "markdown"
        /\ ExtractedOf(i)[1].error = "HTTP 500"

\* C20: a completed 2xx exchange whose strategy has an extractor ends the
\* fetch at that attempt with the response of the exchange, its status and
\* text and no error, and with an extracted payload; when processing the
\* page raised inside the extractor, the payload carries the error of the
\* extraction and no content.
ExtractionFailureContained ==
    \A i \in observed :
        LET t == task[i]
        IN  (/\ 200 <= t.completed /\ t.completed < 300
             /\ get_extractor(ExtractionType(requests[i])) # None) =>
                /\ t.pc = "done"
                /\ t.result.status = t.completed
                /\ t.result.text \in Pages
                /\ t.result.error = None
                /\ t.failures = t.attempt
                /\ t.started <= t.attempt + 1
                /\ t.result.extracted # NoExtracted
                /\ extract_links(t.result.text, requests[i].url).raised =>
                      /\ t.result.extracted[1].error =
                            "Extraction error: Invalid IPv6 URL"
                      /\ t.result.extracted[1].content = ""

\* A fetch allowed further attempts has returned a 200 response whose
\* extraction failed.
ExtractionFailureWitness ==
    \E i \in observed :
        /\ task[i].pc = "done"
        /\ max_retries >= 2
        /\ task[i].attempt = 0
        /\ task[i].result.status = 200
        /\ task[i].result.error = None
        /\ extract_links(task[i].result.text, requests[i].url).raised
        /\ task[i].result.extracted # NoExtracted
        /\ task[i].result.extracted[1].error =
              "Extraction error: Invalid IPv6 URL"

\* C9: the exchanges of one fetch are sequential: at most one is in flight,
\* and it is the exchange of the attempt the fetch is at.
AttemptsSequential ==
    \A i \in Tasks :
        /\ Cardinality(InFlightOf(i)) <= 1
        /\ \A x \in InFlightOf(i) :
              task[i].pc = "exchange" /\ x[2] = task[i].attempt

\* The exchange of a second attempt is in flight.
SecondAttemptInFlightWitness ==
    \E i \in Tasks : task[i].pc = "exchange" /\ task[i].attempt >= 1

\* The fetches whose exchange holds a slot of semaphore g.
Holders(g) == {i \in Tasks : task[i].pc = "exchange" /\ task[i].held = g}

\* C10: a fetch sleeping in backoff holds no slot and has no exchange in
\* flight; the slots taken from a semaphore are exactly those of the
\* exchanges in flight, so the sleepers leave all others free.
BackoffHoldsNoSlot ==
    /\ \A i \in Tasks :
          task[i].pc = "sleep" => (task[i].held = 0 /\ InFlightOf(i) = {})
    /\ \A g \in 1..nSetups :
          semValue[g] = max_concurrent_requests - Cardinality(Holders(g))

\* As many exchanges as the cap allows are in flight under the current
\* semaphore while another fetch sleeps in backoff.
FullWhileBackoffWitness ==
    /\ semaphore # 0
    /\ Cardinality(Holders(semaphore)) = max_concurrent_requests
    /\ \E i \in Tasks : task[i].pc = "sleep"

\* C21: the strategy applied to a completed exchange is the request's when
\* the request sets one and the config's otherwise: the payload attached is
\* of that strategy's extractor and of no other, and when neither sets one
\* the response has no extracted payload.
StrategyPrecedence ==
    \A i \in observed :
        LET t == task[i]
            own == requests[i].extraction_strategy
        IN  (t.pc = "done" /\ t.completed # 0) =>
                /\ (own # None /\ own \in Registered) =>
                      /\ ExtractedOf(i) # NoExtracted
                      /\ ExtractedOf(i)[1].extraction_type = own
                /\ (own = None /\ extraction_strategy \in Registered) =>
                      /\ ExtractedOf(i) # NoExtracted
                      /\ ExtractedOf(i)[1].extraction_type =
                            extraction_strategy
                /\ (own = None /\ extraction_strategy = None) =>
                      ExtractedOf(i) = NoExtracted
                /\ ExtractedOf(i) # NoExtracted =>
                      ExtractedOf(i)[1].extraction_type \in
                          {own, extraction_strategy}

\* A request asking for Markdown on an engine configured for HTML has got a
\* Markdown payload.
RequestOverridesConfigWitness ==
    \E i \in observed :
        /\ task[i].pc = "done"
        /\ task[i].completed = 200
        /\ extraction_strategy = "html"
        /\ requests[i].extraction_strategy = "markdown"
        /\ ExtractedOf(i) # NoExtracted
        /\ ExtractedOf(i)[1].extraction_type = "markdown"
        /\ ExtractedOf(i)[1].error = None

\* The dict sent is the union of the two dicts, the request's value standing
\* for a key of both.
MergedOf(sent, defaults, own) ==
    /\ Keys(sent) = Keys(defaults) \cup Keys(own)
    /\ Cardinality(sent) = Cardinality(Keys(sent))
    /\ \A key \in Keys(own) : Get(sent, key) = Get(own, key)
    /\ \A key \in Keys(defaults) \ Keys(own) :
          Get(sent, key) = Get(defaults, key)

\* C22: at every attempt of a fetch the headers and the cookies sent are
\* the union of the config's and the request's, the request's value standing
\* for every key of both; no step changes the config's or the request's
\* headers and cookies.
MergedHeadersSent ==
    /\ [](\A i \in observed :
            task[i].pc \in {"acquire", "exchange", "sleep"} =>
                /\ MergedOf(task[i].headers, headers, requests[i].headers)
                /\ MergedOf(task[i].cookies, cookies, requests[i].cookies))
    /\ [][/\ headers' = headers
          /\ cookies' = cookies
          /\ \A i \in 1..Len(requests) :
                i <= Len(requests') =>
                    /\ requests'[i].headers = requests[i].headers
                    /\ requests'[i].cookies = requests[i].cookies]_vars

\* The exchange of a second attempt is in flight with the request's user
\* agent in place of the config's, beside a header only the config has and
\* a cookie only the request has.
RequestHeaderWinsWitness ==
    \E i \in observed :
        /\ task[i].pc = "exchange"
        /\ task[i].attempt = 1
        /\ headers = {<<"User-Agent", UserAgent>>, <<"Accept", "x">>}
        /\ requests[i].headers = {<<"User-Agent", "x">>}
        /\ task[i].headers = {<<"User-Agent", "x">>, <<"Accept", "x">>}
        /\ cookies = {}
        /\ task[i].cookies = {<<"sid", "x">>}

\* C23: the response a fetch returns carries the metadata of its request,
\* after a completed exchange and after the failure of all attempts, and no
\* step of a fetch changes a request.
MetadataCarried ==
    /\ [](\A i \in 1..Len(requests) :
            /\ requests[i] = CrawlRequest(i)
            /\ task[i].pc = "done" =>
                  task[i].result.metadata = requests[i].metadata)
    /\ [][\A i \in 1..Len(requests) :
             i <= Len(requests') => requests'[i] = requests[i]]_vars

\* fetch_all has returned the response of a completed exchange for the
\* first request and the failure response for the second, each with the
\* metadata of its own request.
MetadataBothWaysWitness ==
    /\ batch = "returned"
    /\ Len(requests) = 2
    /\ returned[1].status = 200 /\ returned[1].metadata = 1
    /\ returned[2].status = 0 /\ returned[2].error # None
    /\ returned[2].metadata = 2
    /\ requests[2].metadata = 2

\* Every fetch of the batch has found a session and begun its loop.
BatchUnderWay ==
    /\ batch = "running"
    /\ \A i \in 1..Len(requests) : task[i].pc \notin {"new", "raised"}

\* C24: when every exchange ends and every task that can run is run, a
\* batch whose fetches found a session is returned by fetch_all, whatever
\* its size against max_concurrent_requests: a fetch that waits for a slot
\* gets it or gives the attempt up, and every fetch returns its response.
FetchAllEventuallyReturns ==
    /\ BatchUnderWay ~> (batch = "returned" /\ Len(returned) = Len(requests))
    /\ \A i \in Tasks :
          /\ (task[i].pc = "acquire") ~> (task[i].pc # "acquire")
          /\ (task[i].pc \in {"acquire", "exchange", "sleep"})
                ~> (task[i].pc = "done")

\* fetch_all has returned two completed exchanges under a cap of one, on a
\* session that stayed open: the second fetch waited for the slot of the
\* first.
BatchBeyondCapReturnedWitness ==
    /\ batch = "returned"
    /\ Len(requests) = 2
    /\ max_concurrent_requests = 1
    /\ nSetups = 1
    /\ session = "open"
    /\ returned[1].status = 200
    /\ returned[2].status = 200

\* C25: the list _extract_links returns and the list _extract_images
\* returns hold no URL twice, however often the page repeats it and whichever
\* hrefs resolve to it; every URL of the page is in the list.
NoDuplicateLinks ==
    \A k \in 1..Len(output) :
        output[k].call \in {"links", "images"} =>
            LET list == output[k].value
                tags == IF output[k].call = "links" THEN {"a"} ELSE {"img"}
                kept == IF output[k].call = "links"
                        THEN extraction_config.preserve_links
                        ELSE extraction_config.preserve_images
            IN  /\ \A m, n \in 1..Len(list) : list[m] = list[n] => m = n
                /\ kept => Range(list) = Range(Resolved(tree, tags, BaseUrl))

\* _extract_links has returned two URLs for a page of three links, two of
\* them with different hrefs that resolve to the same URL.
RepeatedLinkOnceWitness ==
    /\ Len(tree) = 3
    /\ \A k \in 1..3 : tree[k].tag = "a"
    /\ tree[1].url = <<"/", "a">>
    /\ tree[2].url = <<"a">>
    /\ output # <<>>
    /\ output[1].call = "links"
    /\ Len(output[1].value) = 2

\* The line the Markdown extractor writes for a heading or a paragraph.
MarkdownLine(e) ==
    (CASE e.tag = "h1" -> <<"#", " ">>
       [] e.tag = "h2" -> <<"#", "#", " ">>
       [] OTHER -> <<>>) \o Strip(e.text)

\* C26: _convert_to_markdown writes no line for a heading or a paragraph
\* whose stripped text is shorter than min_text_length; on a page of headings
\* and paragraphs only, the lines of the content are those of the elements
\* that are long enough, headings by level first and paragraphs after; and a
\* page of one h1 of 10 characters or more and one paragraph of 5 gives "# "
\* and the text of the heading, nothing else.
MinTextLengthFilters ==
    \A k \in 1..Len(output) :
        output[k].call = "markdown" =>
            LET content == output[k].value
                lines == SelectSeq(Split(content, "\n"),
                                   LAMBDA line : line # <<>>)
                block(e) == e.tag \in {"h1", "h2", "p"}
                long(e) == Len(Strip(e.text))
                               >= extraction_config.min_text_length
                of(tag) == SelectSeq(tree,
                                     LAMBDA e : e.tag = tag /\ long(e))
                kept == of("h1") \o of("h2") \o of("p")
            IN  /\ \A j \in 1..Len(tree) :
                      block(tree[j]) /\ ~long(tree[j])
                          => MarkdownLine(tree[j]) \notin Range(lines)
                /\ (\A j \in 1..Len(tree) : block(tree[j]))
                       => lines = [j \in 1..Len(kept) |-> MarkdownLine(kept[j])]
                /\ \A h, p \in 1..Len(tree) :
                      /\ Len(tree) = 2
                      /\ tree[h].tag = "h1" /\ long(tree[h])
                      /\ tree[p].tag = "p" /\ Len(Strip(tree[p].text)) = 5
                      => content = <<"#", " ">> \o Strip(tree[h].text)

\* _convert_to_markdown has run on a page of a paragraph of 5 characters
\* followed by an h1 of 16, with min_text_length = 10, and the content
\* is the heading line alone.
HeadingOnlyWitness ==
    /\ extraction_config.min_text_length = 10
    /\ Len(tree) = 2
    /\ tree[1].tag = "p" /\ Len(Strip(tree[1].text)) = 5
    /\ tree[2].tag = "h1" /\ Len(Strip(tree[2].text)) = 16
    /\ output # <<>>
    /\ output[1].call = "markdown"
    /\ output[1].value = <<"#", " ">> \o tree[2].text

\* C27: when every attempt of a fetch has failed, the error of the response
\* is the message of the exception the last attempt raised, after the
\* prefix of its except clause: "Timeout error: " for asyncio.TimeoutError,
\* "Client error: " for aiohttp.ClientError, "Unexpected error: " for any
\* other exception; what the earlier attempts raised does not show.
LastErrorOnly ==
    \A i \in observed :
        LET t == task[i]
        IN  (t.pc = "done" /\ max_retries >= 1 /\ t.failures = max_retries) =>
                /\ Len(t.caught) = max_retries
                /\ t.result.status = 0
                /\ t.result.error =
                      (CASE t.caught[max_retries] = "Timeout"
                                -> "Timeout error: e"
                         [] t.caught[max_retries] = "Client"
                                -> "Client error: e"
                         [] t.caught[max_retries] = "Unexpected"
                                -> "Unexpected error: e")

\* A fetch with max_retries = 3 has returned after a timeout, an unexpected
\* exception and a client error, in that order, and its error is the client
\* error's.
EarlierErrorsOverwrittenWitness ==
    \E i \in observed :
        /\ task[i].pc = "done"
        /\ max_retries = 3
        /\ task[i].caught = <<"Timeout", "Unexpected", "Client">>
        /\ task[i].result.error = "Client error: e"

\* C28: the step that ends an attempt's exchange, by its completion, a
\* timeout or another exception, gives the attempt's slot back to the
\* semaphore it was taken from; so whenever no attempt holds a slot or waits
\* for one, every semaphore the engine has made has all its
\* max_concurrent_requests slots free.
NoSlotLeak ==
    /\ []((\A i \in Tasks : task[i].pc \notin {"acquire", "exchange"}) =>
              /\ inflight = {}
              /\ \A g \in 1..nSetups :
                    semValue[g] = max_concurrent_requests)
    /\ [][\A i \in Tasks :
             (task[i].pc = "exchange" /\ task'[i] # task[i]) =>
                 /\ task'[i].pc \in {"sleep", "done"}
                 /\ task'[i].held = 0
                 /\ semValue' = [semValue EXCEPT ![task[i].held] = @ + 1]]_vars

\* With one slot, the first fetch of a batch has timed out and sleeps, the
\* second has had the slot after it and returned a response, and the slot is
\* free again.
SlotsBackAfterFailureWitness ==
    /\ max_concurrent_requests = 1
    /\ nSetups = 1
    /\ semaphore = 1
    /\ task[1].pc = "sleep" /\ task[1].last_error = "Timeout error: e"
    /\ task[2].pc = "done" /\ task[2].result.status = 200
    /\ inflight = {}
    /\ semValue[1] = 1

\* C29: once setup has run a second time, the exchanges in flight under
\* the semaphore of the first setup and under that of the second number
\* together at most max_concurrent_requests.
CapAcrossSetups ==
    nSetups >= 2 =>
        Cardinality(UNION {Holders(g) : g \in 1..nSetups})
            <= max_concurrent_requests

\* C30: a fetch that waits for a slot or sleeps in backoff when cleanup has
\* closed or dropped the session does not raise; as long as no new setup
\* opens a session, each step it takes is an attempt that fails with
\* "Unexpected error: " (or, with the semaphore still there and full, the
\* wait for a slot): no exchange is issued, the semaphores are as before the
\* step, and when the fetch returns its response has status 0 and that error.
CleanupDuringFetch ==
    [][\A i \in Tasks :
          (/\ task[i].pc \in {"acquire", "sleep"}
           /\ session # "open"
           /\ task'[i] # task[i]) =>
              /\ task'[i].pc \in {"acquire", "sleep", "done"}
              /\ task'[i].started = task[i].started
              /\ inflight' = inflight
              /\ semValue' = semValue
              /\ task'[i].pc = "acquire" =>
                    (task[i].pc = "sleep" /\ task'[i].held = semaphore
                         /\ semaphore # 0)
              /\ task'[i].pc \in {"sleep", "done"} =>
                    /\ task'[i].held = 0
                    /\ task'[i].failures = task[i].failures + 1
                    /\ task'[i].last_error = "Unexpected error: e"
              /\ task'[i].pc = "done" =>
                    /\ task'[i].result.status = 0
                    /\ task'[i].result.error = "Unexpected error: e"]_vars

\* With one slot and two attempts, after one setup: the first fetch timed
\* out and slept, the second waited for the slot; cleanup ran; the first has
\* returned after its one exchange and the second without any, both with the
\* unexpected error, and the slot is free.
CleanedUpFetchesReturnedWitness ==
    /\ max_concurrent_requests = 1
    /\ max_retries = 2
    /\ nSetups = 1
    /\ session = "none"
    /\ task[1].pc = "done" /\ task[1].started = 1
    /\ task[1].caught = <<"Timeout", "Unexpected">>
    /\ task[2].pc = "done" /\ task[2].started = 0
    /\ task[2].caught = <<"Unexpected", "Unexpected">>
    /\ \A i \in 1..2 : /\ task[i].result.status = 0
                       /\ task[i].result.error = "Unexpected error: e"
    /\ inflight = {}
    /\ semValue[1] = 1

\* C31: with no cleanup under way, the engine has a live session exactly
\* after a setup that no cleanup has followed: none before the first setup,
\* an open one after each setup, none after each cleanup, and no other step
\* changes it; a fetch that starts then raises the not-initialized error
\* exactly when there is no live session; and on an engine without a session
\* cleanup finds nothing to close and no semaphore to drop.
NotInitializedExactly ==
    /\ [](nSetups = 0 => session = "none")
    /\ [](cleanupPc = "idle" => session \in {"none", "open"})
    /\ [](session = "none" => (semaphore = 0 /\ cleanupPc = "idle"))
    /\ [][nSetups' # nSetups => session' = "open"]_vars
    /\ [][(cleanupPc = "closing" /\ cleanupPc' = "idle") =>
              (session' = "none" /\ semaphore' = 0)]_vars
    /\ [][session' # session =>
              (nSetups' # nSetups \/ cleanupPc' # cleanupPc)]_vars
    /\ [][\A i \in Tasks :
             (task[i].pc = "new" /\ task'[i] # task[i]
                  /\ cleanupPc = "idle") =>
                 (task'[i].pc = "raised" <=> session # "open")]_vars

\* Two setups, each followed by a cleanup, and then a fetch has started and
\* raised.
RaisedAfterCleanupWitness ==
    /\ nSetups = 2
    /\ session = "none"
    /\ cleanupPc = "idle"
    /\ \E i \in Tasks : task[i].pc = "raised"

\* C32: a response that fetch returned with status 0 has an error, whatever
\* max_retries is, 0 included.
SentinelHasError ==
    \A i \in Tasks :
        (task[i].pc = "done" /\ task[i].result.status = 0) =>
            task[i].result.error # None

\* The fetches inside "async with self._semaphore" on semaphore g.
Inside(g) ==
    {i \in Tasks : task[i].pc \in {"exchange", "extract"} /\ task[i].held = g}

\* C33: reading the body gives no slot back; while a fetch is at the
\* extraction it holds its slot and its exchange is not over, so the slot
\* counts against the cap; the step that extracts, attaches the payload and
\* returns is the one that gives the slot back.
SlotHeldDuringExtraction ==
    /\ [](\A i \in Tasks :
             task[i].pc = "extract" =>
                 /\ task[i].held \in 1..nSetups
                 /\ <<i, task[i].attempt>> \in inflight
                 /\ semValue[task[i].held] =
                        max_concurrent_requests
                            - Cardinality(Inside(task[i].held)))
    /\ [][\A i \in Tasks :
             (task[i].pc = "exchange" /\ task'[i].pc = "extract") =>
                 (semValue' = semValue /\ inflight' = inflight
                      /\ task'[i].held = task[i].held)]_vars
    /\ [][\A i \in Tasks :
             (task[i].pc = "extract" /\ task'[i] # task[i]) =>
                 /\ semValue' = [semValue EXCEPT ![task[i].held] = @ + 1]
                 /\ inflight' = inflight \ {<<i, task[i].attempt>>}
                 /\ task'[i].pc = "done"
                 /\ task'[i].held = 0
                 /\ get_extractor(ExtractionType(requests[i])) # None =>
                       task'[i].result.extracted # NoExtracted]_vars

\* With one slot, the first fetch is at the Markdown extraction of its
\* response while the second waits for the slot.
WaitingWhileExtractingWitness ==
    /\ max_concurrent_requests = 1
    /\ extraction_strategy = "markdown"
    /\ task[1].pc = "extract" /\ task[1].result.status = 200
    /\ task[2].pc = "acquire" /\ task[2].held = task[1].held
    /\ semValue[task[1].held] = 0

\* C34: AsyncCrawler defines every method BaseCrawler declares abstract,
\* and AsyncCrawler(config) does not raise.
ConstructionSucceeds ==
    crawler # "none" =>
        /\ BaseCrawlerAbstract \subseteq AsyncCrawlerDefines
        /\ crawler = "constructed"

\* C35: when the strategy selected for a fetch, the request's or else the
\* config's, is ExtractionType.STRUCTURED, which has no extractor, the
\* completion of an exchange ends the fetch: the response has the status of
\* the exchange, no extracted payload and no error, and no attempt follows,
\* whatever the other of the two strategies is.
UnknownTypeNoExtraction ==
    \A i \in observed :
        LET t == task[i]
            own == requests[i].extraction_strategy
            selected == IF own # None THEN own ELSE extraction_strategy
        IN  (t.completed # 0 /\ selected = "structured") =>
                /\ t.pc = "done"
                /\ t.result.status = t.completed
                /\ t.result.extracted = NoExtracted
                /\ t.result.error = None
                /\ Len(t.caught) = t.failures
                /\ t.attempt = t.failures

\* A request asking for the structured strategy, on an engine configured
\* for HTML, has failed once and then got its response, which has no
\* payload.
StructuredNoPayloadWitness ==
    \E i \in observed :
        /\ task[i].pc = "done"
        /\ task[i].completed = 200
        /\ task[i].failures = 1
        /\ extraction_strategy = "html"
        /\ requests[i].extraction_strategy = "structured"
        /\ task[i].result.status = 200
        /\ task[i].result.extracted = NoExtracted
        /\ task[i].result.error = None

\* The place of an element's kind in the order of _convert_to_markdown.
Rank(e) ==
    CASE e.tag = "h1" -> 1
      [] e.tag = "h2" -> 2
      [] e.tag = "p" -> 7
      [] e.tag = "a" -> 8
      [] e.tag = "img" -> 9
      [] e.tag = "li" /\ e.parent = "ol" -> 10
      [] e.tag = "li" /\ e.parent = "ul" -> 11
      [] e.tag = "code" /\ e.parent = "pre" -> 12
      [] e.tag = "code" -> 13
      [] e.tag = "blockquote" -> 14
      [] e.tag = "strong" -> 15
      [] e.tag = "em" -> 16

\* Where the letter c first stands in s, and past the end if it does not.
FirstAt(s, c) ==
    IF \E k \in 1..Len(s) : s[k] = c
    THEN CHOOSE k \in 1..Len(s) : s[k] = c /\ \A j \in 1..(k - 1) : s[j] # c
    ELSE Len(s) + 1

\* C36: the content _convert_to_markdown returns has every element of the
\* page, and an element of a kind earlier in the fixed order (h1, h2 .. h6,
\* paragraphs, links, images, ordered items, unordered items, code blocks,
\* inline code, blockquotes, bold, italic) stands before every element of a
\* later kind, wherever the two are in the page; a paragraph followed by an
\* h1 gives the heading line, an empty line and the paragraph.
GroupedByKind ==
    \A k \in 1..Len(output) :
        output[k].call = "markdown" =>
            LET content == output[k].value
                at(e) == FirstAt(content, e.text[1])
            IN  /\ \A i \in 1..Len(tree) : at(tree[i]) <= Len(content)
                /\ \A i, j \in 1..Len(tree) :
                      Rank(tree[i]) < Rank(tree[j]) =>
                          at(tree[i]) < at(tree[j])
                /\ (Len(tree) = 2 /\ tree[1].tag = "p" /\ tree[2].tag = "h1")
                       => content = <<"#", " ">> \o tree[2].text
                                        \o <<"\n", "\n">> \o tree[1].text

\* _convert_to_markdown has run on a page of an italic word, a paragraph and
\* an h1, in that order, and the content has the heading, then the
\* paragraph, then the italic word.
ParagraphAfterHeadingWitness ==
    /\ Len(tree) = 3
    /\ tree[1].tag = "em" /\ tree[2].tag = "p" /\ tree[3].tag = "h1"
    /\ output # <<>>
    /\ output[1].call = "markdown"
    /\ output[1].value = <<"#", " ">> \o tree[3].text \o <<"\n", "\n">>
                             \o tree[2].text \o <<"\n", "\n", "*">>
                             \o tree[1].text \o <<"*">>

====
